---- MODULE Spec2Model ----
(***************************************************************************)
(* Exercise generation, answer checking, audio synthesis and audio cache   *)
(* of the open-ear-trainer backend.                                        *)
(*                                                                         *)
(* Conventions of the model                                                *)
(*   - a note string "<Name>-<octave>" is the pair <<Name, octave>>;       *)
(*   - durations are in tenths of a second (1.5 s is 15), delays in ms;    *)
(*   - a probability is a weight in units of 1/ProbUnit;                   *)
(*   - Python's None is the string NoneV;                                  *)
(*   - the MD5 digest of a canonical string is taken to be injective, so   *)
(*     a cache key is the canonical string itself, kept as the record of   *)
(*     the fields the f-string prints.                                     *)
(***************************************************************************)
EXTENDS Integers, Sequences, FiniteSets, TLC

VARIABLES
    cache_enabled,   \* AudioSynthesizer.cache_enabled (settings.AUDIO_CACHE_ENABLED)
    soundfont,       \* a SoundFont file exists at settings.SOUNDFONT_PATH
    media_audio,     \* files of MEDIA_ROOT/audio made by mkstemp, in creation order
    cache,           \* files of MEDIA_ROOT/audio/cache, by cache key
    completed,       \* the synthesize_* calls that have returned: request,
                     \* canonical description and returned path
    last_synth,      \* what the most recent synthesize_* call did
    issued,          \* the ExerciseData most recently handed to the client
    last,            \* outcome of the most recent entry-point call
    workers,         \* concurrent synthesize_* calls, one per request thread
    exercises        \* exercise_registry.exercises: the shared instances,
                     \* by id, with the attributes each holds

vars == <<cache_enabled, soundfont, media_audio, cache, completed,
          last_synth, issued, last, workers, exercises>>

----------------------------------------------------------------------------
(* Bounds of the model *)

\* direct synthesize_* calls create at most this many mkstemp files
MaxTemp == 2

\* the exercise entry points render at most this many files in one behaviour
MaxRenders == 1

\* random.random() is drawn from {0/RandDen, ..., (RandDen-1)/RandDen}
RandDen == 2

\* number of concurrent request threads
NumWorkers == 2

\* a waveform file is written in this many chunks
FileChunks == 2

----------------------------------------------------------------------------
(* Program constants *)

ProbUnit == 60

NoneV == "<None>"

\* no waveform / no file / no request, in the shape of the real ones
NoWave == [engine |-> NoneV, kind |-> NoneV, notes |-> <<>>, nums |-> <<>>]

NoReq == [type |-> NoneV, notes |-> <<>>, progression |-> <<>>, nums |-> <<>>]

\* a file: the waveform it holds, how many of its FileChunks chunks are
\* written, and the request it was rendered for
NoFile == [exists |-> FALSE, wave |-> NoWave, written |-> 0, source |-> NoReq]

\* note_order of the theory helpers (sharps only)
note_order == <<"C", "C#", "D", "D#", "E", "F", "F#", "G", "G#", "A", "A#", "B">>

\* config_options["reference_notes"]
reference_notes == <<"C", "D", "E", "F", "G", "A", "B">>

RECURSIVE IndexOf(_, _, _)
IndexOf(seq, x, i) ==
    IF i > Len(seq) THEN 0
    ELSE IF seq[i] = x THEN i ELSE IndexOf(seq, x, i + 1)

SeqToSet(seq) == {seq[i] : i \in 1..Len(seq)}

\* mingus.core.notes._note_dict: the pitch class of a note letter
note_dict(letter) ==
    CASE letter = "C" -> 0
      [] letter = "D" -> 2
      [] letter = "E" -> 4
      [] letter = "F" -> 5
      [] letter = "G" -> 7
      [] letter = "A" -> 9
      [] letter = "B" -> 11

\* a note name: a letter followed by acc sharps (acc > 0) or -acc flats
Spell(letter, acc) ==
    CASE acc = 0 -> letter
      [] acc = 1 -> letter \o "#"
      [] acc = 2 -> letter \o "##"
      [] acc = -1 -> letter \o "b"
      [] acc = -2 -> letter \o "bb"
      [] acc = 3 -> letter \o "###"
      [] acc = -3 -> letter \o "bbb"

\* the spellings with at most three accidentals
Spellings == SeqToSet(reference_notes) \X (-3..3)

\* mingus.core.notes.is_valid_note
is_valid_note(name) == \E p \in Spellings : Spell(p[1], p[2]) = name

\* mingus.core.notes.note_to_int: the letter's pitch class, minus one for
\* each b and plus one for each #, modulo 12 (-1 stands for the
\* NoteFormatError of a name that is not a valid note)
note_to_int(name) ==
    IF is_valid_note(name)
    THEN LET p == CHOOSE q \in Spellings : Spell(q[1], q[2]) = name
         IN  (note_dict(p[1]) + p[2] + 12) % 12
    ELSE -1

\* mingus.core.notes.int_to_note
int_to_note(n) == note_order[n + 1]

\* floor division and modulo of Python on integers
FloorDiv(a, b) == IF a >= 0 THEN a \div b ELSE -((-a + b - 1) \div b)

PyMod(a, b) == a - b * FloorDiv(a, b)

\* music_app.notes.transpose_note on a note <<name, octave>>
transpose_note(note, semitones) ==
    LET base_number == note_to_int(note[1])
        total_semitones == base_number + semitones
        new_note_number == PyMod(total_semitones, 12)
        octave_change == FloorDiv(total_semitones, 12)
    IN  <<int_to_note(new_note_number), note[2] + octave_change>>

----------------------------------------------------------------------------
(* audio_app/synthesizer.py : requests, cache keys, rendering *)

C4 == <<"C", 4>>
D4 == <<"D", 4>>
E4 == <<"E", 4>>
F4 == <<"F", 4>>
G4 == <<"G", 4>>
A4 == <<"A", 4>>

\* one synthesize_* call: type is the method, notes its note arguments in
\* order, progression the list of chords (synthesize_progression only),
\* nums the numeric arguments in the order of the signature
SynthReq(type, notes, progression, nums) ==
    [type |-> type, notes |-> notes, progression |-> progression, nums |-> nums]

\* the f-string "content" each synthesize_* method hashes
content_string(req) ==
    IF req.type = "progression"
    THEN [tag |-> "progression", notes |-> <<>>,
          nums |-> <<Len(req.progression)>> \o req.nums]
    ELSE [tag |-> req.type, notes |-> req.notes, nums |-> req.nums]

generate_cache_key(content) == [md5 |-> content]

NoKey == [md5 |-> [tag |-> NoneV, notes |-> <<>>, nums |-> <<>>]]

\* paths: a mkstemp file of MEDIA_ROOT/audio or a file of MEDIA_ROOT/audio/cache
\* a fixed file name in place of mkstemp
TempPath_fixed_name(n) == [dir |-> "audio", n |-> 1, key |-> NoKey]

\* tempfile.mkstemp(dir=media_dir): the n-th file created, a new name
TempPath(n) == [dir |-> "audio", n |-> n, key |-> NoKey]

get_cache_path(cache_key) == [dir |-> "audio/cache", n |-> 0, key |-> cache_key]

NoPath == [dir |-> NoneV, n |-> 0, key |-> NoKey]

Exists(path) ==
    IF path.dir = "audio" THEN path.n \in 1..Len(media_audio)
    ELSE IF path.dir = "audio/cache" THEN path.key \in DOMAIN cache
    ELSE FALSE

FileAt(path) ==
    IF path.dir = "audio" /\ path.n \in 1..Len(media_audio) THEN media_audio[path.n]
    ELSE IF path.dir = "audio/cache" /\ path.key \in DOMAIN cache THEN cache[path.key]
    ELSE NoFile

Complete(file) == file.exists /\ file.written = FileChunks

\* a cache check that never finds the file
is_cached_never(cache_key) == FALSE

\* _is_cached
is_cached(cache_key) ==
    IF ~cache_enabled THEN FALSE ELSE Exists(get_cache_path(cache_key))

\* _create_placeholder_wav: a 440 Hz sine of the given duration
create_placeholder_wav(duration) ==
    [engine |-> "placeholder", kind |-> "sine440", notes |-> <<>>,
     nums |-> <<duration>>]

\* the _create_fluidsynth_* renderers when they run to the end
create_fluidsynth(req) ==
    [engine |-> "fluidsynth", kind |-> req.type, notes |-> req.notes,
     nums |-> req.nums]

\* the _create_synthetic_* renderers
create_synthetic(req) ==
    [engine |-> "synthetic", kind |-> req.type, notes |-> req.notes,
     nums |-> req.nums]

\* what a _create_*_interval_wav call did: the waveform left in the output
\* file, whether the soundfont backend was selected and raised, how often
\* and with which arguments the synthetic renderer ran, whether the call raised
Rendered(wave, selected, raised, runs, args, raises) ==
    [wave |-> wave, backend_selected |-> selected, backend_raised |-> raised,
     synthetic_runs |-> runs, synthetic_args |-> args, raises |-> raises]

\* _create_melodic_interval_wav: the soundfont backend when a soundfont
\* exists, the synthetic renderer otherwise and, by the except clause,
\* whenever the backend raised (fs_raises: it raises during this call)
create_melodic_interval_wav(req, fs_raises) ==
    IF soundfont /\ ~fs_raises
    THEN Rendered(create_fluidsynth(req), TRUE, FALSE, 0, NoReq, FALSE)
    ELSE Rendered(create_synthetic(req), soundfont, soundfont /\ fs_raises, 1,
                  req, FALSE)

\* _create_harmonic_interval_wav
create_harmonic_interval_wav(req, fs_raises) ==
    IF soundfont /\ ~fs_raises
    THEN Rendered(create_fluidsynth(req), TRUE, FALSE, 0, NoReq, FALSE)
    ELSE Rendered(create_synthetic(req), soundfont, soundfont /\ fs_raises, 1,
                  req, FALSE)

\* a staggered renderer without the except clause: the backend's exception
\* reaches the caller
create_staggered_interval_wav_unguarded(req, fs_raises) ==
    IF soundfont
    THEN IF fs_raises THEN Rendered(NoWave, TRUE, TRUE, 0, NoReq, TRUE)
         ELSE Rendered(create_fluidsynth(req), TRUE, FALSE, 0, NoReq, FALSE)
    ELSE Rendered(create_synthetic(req), FALSE, FALSE, 1, req, FALSE)

\* _create_staggered_interval_wav
create_staggered_interval_wav(req, fs_raises) ==
    IF soundfont /\ ~fs_raises
    THEN Rendered(create_fluidsynth(req), TRUE, FALSE, 0, NoReq, FALSE)
    ELSE Rendered(create_synthetic(req), soundfont, soundfont /\ fs_raises, 1,
                  req, FALSE)

\* the rendering step of a synthesize_* method
create_wav(req, fs_raises) ==
    CASE req.type = "melodic_interval" -> create_melodic_interval_wav(req, fs_raises)
      [] req.type = "harmonic_interval" -> create_harmonic_interval_wav(req, fs_raises)
      [] req.type = "staggered_interval" -> create_staggered_interval_wav(req, fs_raises)
      [] req.type = "progression" ->
             Rendered(create_placeholder_wav(Len(req.progression) * req.nums[1]),
                      FALSE, FALSE, 0, NoReq, FALSE)
      [] OTHER -> Rendered(create_placeholder_wav(req.nums[1]),
                           FALSE, FALSE, 0, NoReq, FALSE)

WrittenFile(wave, req) ==
    [exists |-> TRUE, wave |-> wave, written |-> FileChunks, source |-> req]

\* the canonical descriptions of the calls that have returned
CompletedContents == {c.content : c \in completed}

\* _cache_audio: shutil.copy2 of the rendered file to the cache path
cache_audio(files, cache_key, file) ==
    [k \in DOMAIN files \cup {cache_key} |-> IF k = cache_key THEN file ELSE files[k]]

\* a whole synthesize_* call with output_path=None, run without interleaving:
\* the path it returns, the files it leaves and a log of what it did
synthesize(req, fs_raises) ==
    LET content == content_string(req)
        cache_key == generate_cache_key(content)
        hit == is_cached(cache_key)
        r == create_wav(req, fs_raises)
        failed == ~hit /\ r.raises
        output_path == TempPath(Len(media_audio) + 1)
        file == IF failed
                THEN [exists |-> TRUE, wave |-> NoWave, written |-> 0, source |-> req]
                ELSE WrittenFile(r.wave, req)
        cached == ~hit /\ ~failed /\ cache_enabled
        path == IF failed THEN NoPath
                ELSE IF hit \/ cache_enabled THEN get_cache_path(cache_key)
                ELSE output_path
    IN  [path |-> path,
         media |-> IF hit THEN media_audio ELSE Append(media_audio, file),
         cache |-> IF cached THEN cache_audio(cache, cache_key, file) ELSE cache,
         log |-> [req |-> req, content |-> content, hit |-> hit,
                  prior |-> content \in CompletedContents,
                  fresh |-> path \notin {c.path : c \in completed},
                  renders |-> IF hit THEN 0 ELSE 1,
                  cache_reads |-> IF hit THEN 1 ELSE 0,
                  cache_writes |-> IF cached THEN 1 ELSE 0,
                  backend_selected |-> ~hit /\ r.backend_selected,
                  backend_raised |-> ~hit /\ r.backend_raised,
                  synthetic_runs |-> IF hit THEN 0 ELSE r.synthetic_runs,
                  synthetic_args |-> IF hit THEN NoReq ELSE r.synthetic_args,
                  raises |-> failed,
                  path |-> path]]

\* the record a returned call leaves in completed
Returned(log) == [req |-> log.req, content |-> log.content, path |-> log.path]

\* a synthesize_* call can run: a cache hit, or room for one more mkstemp file
CanSynthesize(req) ==
    \/ is_cached(generate_cache_key(content_string(req)))
    \/ Len(media_audio) < MaxTemp

----------------------------------------------------------------------------
(* exercises/base/exercise.py : weighted_choice *)

RECURSIVE SumWeights(_, _)
SumWeights(items, i) ==
    IF i > Len(items) THEN 0 ELSE items[i][2] + SumWeights(items, i + 1)

\* a variant of the loop that compares the draw with the weights as given,
\* without dividing them by their total
RECURSIVE CumulativePick_unnormalized(_, _, _, _, _)
CumulativePick_unnormalized(items, total, r, i, cumulative) ==
    IF i > Len(items) THEN items[1][1]
    ELSE IF r <= (cumulative + items[i][2]) * RandDen THEN items[i][1]
    ELSE CumulativePick_unnormalized(items, total, r, i + 1,
                                     cumulative + items[i][2])

\* the loop of weighted_choice: the first key at which the cumulative
\* normalized weight reaches rand = r / RandDen
RECURSIVE CumulativePick(_, _, _, _, _)
CumulativePick(items, total, r, i, cumulative) ==
    IF i > Len(items) THEN items[1][1]
    ELSE IF r * total <= (cumulative + items[i][2]) * RandDen THEN items[i][1]
    ELSE CumulativePick(items, total, r, i + 1, cumulative + items[i][2])

\* BaseExercise.weighted_choice on a dict given as its items in order; a call
\* consumes one draw r: that of random.choice (all weights zero, as an index)
\* or that of random.random() (as r / RandDen)
weighted_choice(items, r) ==
    LET total_weight == SumWeights(items, 1)
    IN  IF Len(items) = 0 THEN [raises |-> TRUE, choice |-> NoneV]
        ELSE IF total_weight = 0
        THEN [raises |-> FALSE, choice |-> items[(r % Len(items)) + 1][1]]
        ELSE [raises |-> FALSE, choice |-> CumulativePick(items, total_weight, r, 1, 0)]

----------------------------------------------------------------------------
(* exercises/base/interval_exercise.py and the registered exercises *)

\* str.title() of name.replace("_", " ") on the names the model uses
title(name) ==
    CASE name = "major_sixth" -> "Major Sixth"
      [] name = "tritone" -> "Tritone"
      [] name = "bogus" -> "Bogus"
      [] OTHER -> name

\* BaseIntervalExercise._get_interval_semitones
get_interval_semitones(interval) ==
    CASE interval = "unison" -> 0
      [] interval = "minor_second" -> 1
      [] interval = "major_second" -> 2
      [] interval = "minor_third" -> 3
      [] interval = "major_third" -> 4
      [] interval = "perfect_fourth" -> 5
      [] interval = "augmented_fourth" -> 6
      [] interval = "diminished_fifth" -> 6
      [] interval = "perfect_fifth" -> 7
      [] interval = "minor_sixth" -> 8
      [] interval = "major_sixth" -> 9
      [] interval = "minor_seventh" -> 10
      [] interval = "major_seventh" -> 11
      [] interval = "octave" -> 12
      [] OTHER -> 0

\* BaseIntervalExercise._get_interval_notation ("5deg" stands for the
\* degree-sign token of the diminished fifth)
get_interval_notation(interval) ==
    CASE interval = "unison" -> "1J"
      [] interval = "minor_second" -> "2m"
      [] interval = "major_second" -> "2M"
      [] interval = "minor_third" -> "3m"
      [] interval = "major_third" -> "3M"
      [] interval = "perfect_fourth" -> "4J"
      [] interval = "augmented_fourth" -> "4+"
      [] interval = "diminished_fifth" -> "5deg"
      [] interval = "perfect_fifth" -> "5J"
      [] interval = "minor_sixth" -> "6m"
      [] interval = "major_sixth" -> "6M"
      [] interval = "minor_seventh" -> "7m"
      [] interval = "major_seventh" -> "7M"
      [] interval = "octave" -> "8J"
      [] OTHER -> title(interval)

\* BaseIntervalExercise.__init__ and _create_metadata: the instance
BaseIntervalExercise(intervals, exercise_type, timing) ==
    [family |-> "interval", intervals |-> intervals,
     exercise_type |-> exercise_type, timing |-> timing,
     is_melodic |-> (timing = "melodic"),
     metadata_id |-> <<exercise_type, timing>>,
     total_questions |-> 20]

MinorThirdMajorThirdOctaveMelodicExercise ==
    BaseIntervalExercise(<<"minor_third", "major_third", "octave">>,
                         "minor_third_major_third_octave", "melodic")

PerfectFourthPerfectFifthOctaveMelodicExercise ==
    BaseIntervalExercise(<<"perfect_fourth", "perfect_fifth", "octave">>,
                         "perfect_fourth_fifth_octave", "melodic")

MinorThirdMajorThirdOctaveHarmonicExercise ==
    BaseIntervalExercise(<<"minor_third", "major_third", "octave">>,
                         "minor_third_major_third_octave", "harmonic")

PerfectFourthPerfectFifthOctaveHarmonicExercise ==
    BaseIntervalExercise(<<"perfect_fourth", "perfect_fifth", "octave">>,
                         "perfect_fourth_fifth_octave", "harmonic")

CombinedIntervalsMelodicExercise ==
    BaseIntervalExercise(<<"minor_third", "major_third", "perfect_fourth",
                           "perfect_fifth", "octave">>,
                         "combined_intervals", "melodic")

\* SimpleExerciseRegistry.exercises
RegisteredIds ==
    {"minor_third_major_third_octave_melodic",
     "perfect_fourth_fifth_octave_melodic",
     "minor_third_major_third_octave_harmonic",
     "perfect_fourth_fifth_octave_harmonic",
     "combined_intervals_melodic"}

exercise_registry ==
    [id \in RegisteredIds |->
        CASE id = "minor_third_major_third_octave_melodic" ->
                 MinorThirdMajorThirdOctaveMelodicExercise
          [] id = "perfect_fourth_fifth_octave_melodic" ->
                 PerfectFourthPerfectFifthOctaveMelodicExercise
          [] id = "minor_third_major_third_octave_harmonic" ->
                 MinorThirdMajorThirdOctaveHarmonicExercise
          [] id = "perfect_fourth_fifth_octave_harmonic" ->
                 PerfectFourthPerfectFifthOctaveHarmonicExercise
          [] OTHER -> CombinedIntervalsMelodicExercise]

\* None, in the shape of an exercise instance
NoExercise ==
    [family |-> NoneV, intervals |-> <<>>, exercise_type |-> NoneV,
     timing |-> NoneV, is_melodic |-> FALSE, metadata_id |-> <<NoneV, NoneV>>,
     total_questions |-> 0]

\* a lookup that answers an unknown id with a default exercise
get_exercise_with_default(exercise_id) ==
    IF exercise_id \in RegisteredIds THEN exercise_registry[exercise_id]
    ELSE CombinedIntervalsMelodicExercise

\* SimpleExerciseRegistry.get_exercise: a new instance, or None
get_exercise(exercise_id) ==
    IF exercise_id \in RegisteredIds THEN exercise_registry[exercise_id]
    ELSE NoExercise

\* a configuration (**kwargs of generate); an absent option is NoneV,
\* question_number 0 or octave 0 stands for an absent one, and
\* interval_probabilities is absent, a dict (its items) or a str
NoProbs == [kind |-> "absent", items |-> <<>>]

Config(reference_note, interval, octave, question_number, probs) ==
    [reference_note |-> reference_note, interval |-> interval,
     octave |-> octave, question_number |-> question_number,
     interval_probabilities |-> probs]

\* BaseIntervalExercise.validate_config
validate_config(ex, config) ==
    LET qn == IF config.question_number = 0 THEN 1 ELSE config.question_number
    IN  [reference_note |->
             IF config.reference_note # NoneV
                /\ config.reference_note \notin SeqToSet(reference_notes)
             THEN NoneV ELSE config.reference_note,
         interval |->
             IF config.interval # NoneV
                /\ config.interval \notin SeqToSet(ex.intervals)
             THEN NoneV ELSE config.interval,
         octave |-> IF config.octave = 0 THEN 4 ELSE config.octave,
         question_number |->
             IF 1 <= qn /\ qn <= ex.total_questions THEN qn ELSE 1,
         interval_probabilities |-> config.interval_probabilities]

\* the default of interval_probabilities: 1.0 / len(intervals) each
DefaultProbabilities(ex) ==
    [i \in 1..Len(ex.intervals) |-> <<ex.intervals[i], ProbUnit \div Len(ex.intervals)>>]

NoData ==
    [key |-> <<0, 0>>, options |-> <<>>, correct_answer |-> NoneV,
     target_audio |-> NoPath, context |-> [x \in {} |-> NoneV]]

NoLog ==
    [req |-> NoReq, content |-> NoKey.md5, hit |-> FALSE, prior |-> FALSE,
     fresh |-> FALSE,
     renders |-> 0, cache_reads |-> 0, cache_writes |-> 0,
     backend_selected |-> FALSE, backend_raised |-> FALSE,
     synthetic_runs |-> 0, synthetic_args |-> NoReq, raises |-> FALSE,
     path |-> NoPath]

\* BaseIntervalExercise.generate(**config); note_draw is the draw of
\* random.choice(available_notes), r the draw of weighted_choice, fs_raises
\* as in create_interval_wav.  raises: generate raised; rendered: it reached
\* its synthesize_* call, whose log is log
generate(ex, kwargs, note_draw, r, fs_raises) ==
    LET config == validate_config(ex, kwargs)
        reference_note == IF config.reference_note # NoneV
                          THEN config.reference_note ELSE note_draw
        octave == config.octave
        reference_note_with_octave == <<reference_note, octave>>
        probs == config.interval_probabilities
        items == IF probs.kind = "absent" THEN DefaultProbabilities(ex)
                 ELSE probs.items
        drawn == IF probs.kind = "str" THEN [raises |-> TRUE, choice |-> NoneV]
                 ELSE weighted_choice(items, r)
        interval == IF config.interval # NoneV THEN config.interval
                    ELSE drawn.choice
        second_note == transpose_note(reference_note_with_octave,
                                      get_interval_semitones(interval))
        req == IF ex.is_melodic
               THEN SynthReq("staggered_interval",
                             <<reference_note_with_octave, second_note>>,
                             <<>>, <<15, 15, 400>>)
               ELSE SynthReq("harmonic_interval",
                             <<reference_note_with_octave, second_note>>,
                             <<>>, <<15>>)
        s == synthesize(req, fs_raises)
        context == [reference_note |-> reference_note_with_octave,
                    second_note |-> second_note,
                    interval |-> interval,
                    interval_semitones |-> get_interval_semitones(interval),
                    question_number |-> config.question_number,
                    total_questions |-> ex.total_questions,
                    timing |-> ex.timing,
                    octave |-> octave]
    IN  IF drawn.raises
        THEN [raises |-> TRUE, data |-> NoData, rendered |-> FALSE,
              media |-> media_audio, cache |-> cache, log |-> NoLog, draws |-> 1]
        ELSE [raises |-> s.log.raises,
              data |-> IF s.log.raises THEN NoData
                       ELSE [key |-> <<config.question_number, ex.total_questions>>,
                             options |-> [i \in 1..Len(ex.intervals) |->
                                             get_interval_notation(ex.intervals[i])],
                             correct_answer |-> get_interval_notation(interval),
                             target_audio |-> s.path,
                             context |-> context],
              rendered |-> TRUE,
              media |-> s.media, cache |-> s.cache, log |-> s.log, draws |-> 2]

\* dict.get on a context
Get(context, field, default) ==
    IF field \in DOMAIN context THEN context[field] ELSE default

\* BaseIntervalExercise.check_answer
check_answer(ex, answer, context) ==
    LET correct_answer == Get(context, "correct_answer", NoneV)
        is_correct == (answer = correct_answer)
    IN  [correct_answer |-> correct_answer,
         is_correct |-> is_correct,
         feedback |-> IF is_correct THEN "Correct! Well done!"
                      ELSE "Incorrect. The correct answer was ...",
         user_answer |-> answer]

NoResult ==
    [correct_answer |-> NoneV, is_correct |-> FALSE, feedback |-> NoneV,
     user_answer |-> NoneV]

----------------------------------------------------------------------------
(* Inputs of the model *)

\* the requests of direct synthesize_* calls: pairs that differ in one
\* parameter (a note, the order, a duration, the type, the chords)
SynthRequests ==
    {SynthReq("notes", <<C4, E4>>, <<>>, <<10>>),
     SynthReq("notes", <<E4, C4>>, <<>>, <<10>>),
     SynthReq("chord", <<C4, E4>>, <<>>, <<10>>),
     SynthReq("chord", <<C4, G4>>, <<>>, <<10>>),
     SynthReq("melodic_interval", <<C4, E4>>, <<>>, <<10, 5>>),
     SynthReq("harmonic_interval", <<C4, E4>>, <<>>, <<15>>),
     SynthReq("staggered_interval", <<C4, E4>>, <<>>, <<15, 15, 400>>),
     SynthReq("progression", <<>>, << <<C4, E4, G4>> >>, <<15>>),
     SynthReq("progression", <<>>, << <<D4, F4, A4>> >>, <<15>>)}

\* the outcomes of random.choice(reference_notes) that are explored
NoteDraws == {"C"}

RandDraws == 0..(RandDen - 1)

\* configurations of direct generate calls
GenConfigs ==
    {Config(NoneV, NoneV, 0, 0, NoProbs),
     Config("C", "major_third", 0, 0, NoProbs),
     Config("H", "bogus", 5, 25, NoProbs),
     Config(NoneV, NoneV, 0, 0,
            [kind |-> "dict", items |-> << <<"major_sixth", ProbUnit>> >>]),
     Config(NoneV, NoneV, 0, 0,
            [kind |-> "dict", items |-> << <<"octave", 90>>, <<"perfect_fifth", 0>> >>])}

\* query strings of the generate endpoint: every value arrives as a str
QueryConfigs ==
    {Config(NoneV, NoneV, 0, 0, NoProbs),
     Config("C", "major_third", 0, 0, NoProbs),
     Config(NoneV, NoneV, 0, 0, [kind |-> "str", items |-> <<>>])}

RequestIds == RegisteredIds \cup {"nonexistent_id"}

\* a client checks with the exercise that issued its data, or with an
\* unknown id; a client that was issued nothing tries every id
CheckIds ==
    IF issued.id = NoneV THEN RequestIds ELSE {issued.id, "nonexistent_id"}

\* answers a client submits; NoneV: the body has no "answer" field
Answers == {"3m", ""}

ContextKinds == {"as_issued", "with_answer", "empty", "interval_only"}

\* the context a client sends back, built from the data it was issued
ClientContext(kind) ==
    CASE kind = "as_issued" -> issued.data.context
      [] kind = "with_answer" ->
             [correct_answer |-> issued.data.correct_answer] @@ issued.data.context
      [] kind = "interval_only" -> [interval |-> "major_third"]
      [] OTHER -> NoData.context

----------------------------------------------------------------------------
(* Outcomes of the entry points *)

NoEffects == [gen_calls |-> 0, check_calls |-> 0, other_calls |-> 0,
              draws |-> 0, renders |-> 0, cache_writes |-> 0]

Outcome(op, id, kind, status, message, details, data, result, effects) ==
    [op |-> op, id |-> id, kind |-> kind, status |-> status,
     message |-> message, details |-> details, data |-> data,
     result |-> result, effects |-> effects,
     answer |-> NoneV, context_kind |-> NoneV]

NoOutcome ==
    Outcome(NoneV, NoneV, NoneV, 0, NoneV, NoneV, NoData, NoResult, NoEffects)

GenEffects(g) ==
    [gen_calls |-> 1, check_calls |-> 0, other_calls |-> 0,
     draws |-> g.draws, renders |-> g.log.renders,
     cache_writes |-> g.log.cache_writes]

\* the state a generate call leaves behind
ApplyGenerate(g) ==
    /\ media_audio' = g.media
    /\ cache' = g.cache
    /\ last_synth' = IF g.rendered THEN g.log ELSE last_synth
    /\ completed' = IF g.rendered /\ ~g.log.raises
                    THEN completed \cup {Returned(g.log)} ELSE completed

\* generate can run within the bounds
CanGenerate(g) == g.rendered => (g.log.hit \/ Len(media_audio) < MaxRenders)

----------------------------------------------------------------------------
(* Direct calls, as the tests and the core contract make them *)

\* AudioSynthesizer().synthesize_*(...)
Synthesize(req, fs_raises) ==
    /\ CanSynthesize(req)
    /\ LET s == synthesize(req, fs_raises)
       IN  /\ media_audio' = s.media
           /\ cache' = s.cache
           /\ last_synth' = s.log
           /\ completed' = IF s.log.raises THEN completed
                           ELSE completed \cup {Returned(s.log)}
           /\ last' = Outcome("synthesize", NoneV,
                              IF s.log.raises THEN "raised" ELSE "returned",
                              0, NoneV, NoneV, NoData, NoResult,
                              [NoEffects EXCEPT !.renders = s.log.renders,
                                                !.cache_writes = s.log.cache_writes])
    /\ UNCHANGED <<exercises, cache_enabled, soundfont, issued, workers>>

\* a variant of generate that remembers the last question on the instance
self_after_generate_counting(ex, config) ==
    [ex EXCEPT !.total_questions = config.question_number]

\* the attributes of the instance after generate(**config): generate
\* assigns no attribute of self, of self.metadata or of the registry
self_after_generate(ex, config) == ex

\* the attributes of the instance after check_answer(answer, context):
\* check_answer assigns none
self_after_check_answer(ex, answer, context) == ex

\* exercise.generate(**config) on a registered instance
Generate(id, config, note_draw, r, fs_raises) ==
    LET g == generate(exercises[id], config, note_draw, r, fs_raises)
    IN  /\ CanGenerate(g)
        /\ ApplyGenerate(g)
        /\ issued' = IF g.raises THEN issued ELSE [id |-> id, data |-> g.data]
        /\ last' = Outcome("generate", id,
                           IF g.raises THEN "raised" ELSE "returned",
                           0, NoneV, NoneV, NoData, NoResult, GenEffects(g))
        /\ exercises' = [exercises EXCEPT ![id] = self_after_generate(@, config)]
        /\ UNCHANGED <<cache_enabled, soundfont, workers>>

\* exercise.check_answer(answer, context) on the instance that issued the data
CheckAnswer(answer, kind) ==
    /\ issued.id \in RegisteredIds
    /\ answer \in Answers \cup {issued.data.correct_answer}
    /\ LET res == check_answer(exercises[issued.id], answer,
                               ClientContext(kind))
       IN  last' = [Outcome("check_answer", issued.id, "returned", 0, NoneV,
                            NoneV, NoData, res,
                            [NoEffects EXCEPT !.check_calls = 1])
                    EXCEPT !.answer = answer, !.context_kind = kind]
    /\ exercises' = [exercises EXCEPT ![issued.id] =
                         self_after_check_answer(@, answer, ClientContext(kind))]
    /\ UNCHANGED <<cache_enabled, soundfont, media_audio, cache, completed,
                   last_synth, issued, workers>>

----------------------------------------------------------------------------
(* api_app/views.py : the HTTP entry points *)

not_found(op, id) ==
    Outcome(op, id, "not_found", 404, "Exercise <id> not found", NoneV,
            NoData, NoResult, NoEffects)

\* an error response that carries the text of the exception
internal_error_with_exception_text(op, id, message, effects) ==
    Outcome(op, id, "internal_error", 500, "str(e)", NoneV, NoData, NoResult,
            effects)

internal_error(op, id, message, effects) ==
    Outcome(op, id, "internal_error", 500, message, NoneV, NoData, NoResult,
            effects)

validation_error(op, id, status, message, effects) ==
    Outcome(op, id, "validation_error", status, message, "serializer.errors",
            NoData, NoResult, effects)

\* ExerciseDataSerializer(data=...).is_valid(): CharField correct_answer
\* may be neither null nor blank
ExerciseDataSerializer_is_valid(data) == data.correct_answer \notin {NoneV, ""}

\* AnswerResultSerializer(data=...).is_valid(): CharFields user_answer,
\* correct_answer and feedback may be neither null nor blank
AnswerResultSerializer_is_valid(result) ==
    /\ result.user_answer \notin {NoneV, ""}
    /\ result.correct_answer \notin {NoneV, ""}
    /\ result.feedback \notin {NoneV, ""}

\* ExerciseDetailView.get
ExerciseDetailView_get(exercise_id) ==
    /\ last' = IF get_exercise(exercise_id) = NoExercise
               THEN not_found("detail", exercise_id)
               ELSE Outcome("detail", exercise_id, "success", 200, NoneV, NoneV,
                            NoData, NoResult, NoEffects)
    /\ UNCHANGED <<exercises, cache_enabled, soundfont, media_audio, cache, completed,
                   last_synth, issued, workers>>

\* ExerciseGenerateView.get
ExerciseGenerateView_get(exercise_id, query, note_draw, r, fs_raises) ==
    IF get_exercise(exercise_id) = NoExercise
    THEN /\ last' = not_found("generate_view", exercise_id)
         /\ UNCHANGED <<exercises, cache_enabled, soundfont, media_audio, cache, completed,
                        last_synth, issued, workers>>
    ELSE LET g == generate(get_exercise(exercise_id), query, note_draw, r,
                           fs_raises)
         IN  /\ CanGenerate(g)
             /\ ApplyGenerate(g)
             /\ issued' = IF g.raises \/ ~ExerciseDataSerializer_is_valid(g.data)
                          THEN issued ELSE [id |-> exercise_id, data |-> g.data]
             /\ last' = IF g.raises
                        THEN internal_error("generate_view", exercise_id,
                                            "Failed to generate exercise",
                                            GenEffects(g))
                        ELSE IF ~ExerciseDataSerializer_is_valid(g.data)
                        THEN validation_error("generate_view", exercise_id, 500,
                                              "Invalid exercise data", GenEffects(g))
                        ELSE Outcome("generate_view", exercise_id, "success", 200,
                                     NoneV, NoneV, NoData, NoResult, GenEffects(g))
             /\ UNCHANGED <<exercises, cache_enabled, soundfont, workers>>

\* the str a context's reference_note ("<Name>-<octave>") is as a
\* reference_note option: never one of the bare note names
NoteWithOctaveAsName == "<Name>-<octave>"

\* temp_config of ExerciseCheckView.post
temp_config(context) ==
    Config(IF "reference_note" \in DOMAIN context THEN NoteWithOctaveAsName
           ELSE NoneV,
           Get(context, "interval", NoneV), 0, 0, NoProbs)

\* ExerciseCheckView.post; answer = NoneV: the body has no answer field
ExerciseCheckView_post(exercise_id, answer, kind, note_draw, r, fs_raises) ==
    LET context == ClientContext(kind)
        ex == get_exercise(exercise_id)
        regenerates == "correct_answer" \notin DOMAIN context
        g == generate(ex, temp_config(context), note_draw, r, fs_raises)
        effects == IF regenerates THEN GenEffects(g) ELSE NoEffects
        full_context == IF regenerates
                        THEN [correct_answer |-> g.data.correct_answer] @@ context
                        ELSE context
        result == check_answer(ex, answer, full_context)
        checked == [effects EXCEPT !.check_calls = 1]
        Tag(o) == [o EXCEPT !.answer = answer, !.context_kind = kind]
    IN  IF ex = NoExercise
        THEN /\ last' = Tag(not_found("check_view", exercise_id))
             /\ UNCHANGED <<exercises, cache_enabled, soundfont, media_audio, cache,
                            completed, last_synth, issued, workers>>
        ELSE IF answer = NoneV
        THEN /\ last' = Tag(validation_error("check_view", exercise_id, 400,
                                             "Invalid request data", NoEffects))
             /\ UNCHANGED <<exercises, cache_enabled, soundfont, media_audio, cache,
                            completed, last_synth, issued, workers>>
        ELSE /\ regenerates => CanGenerate(g)
             /\ IF regenerates THEN ApplyGenerate(g)
                ELSE UNCHANGED <<media_audio, cache, completed, last_synth>>
             /\ last' = Tag(IF regenerates /\ g.raises
                            THEN internal_error("check_view", exercise_id,
                                                "Failed to check answer", effects)
                            ELSE IF ~AnswerResultSerializer_is_valid(result)
                            THEN validation_error("check_view", exercise_id, 500,
                                                  "Invalid result data", checked)
                            ELSE Outcome("check_view", exercise_id, "success", 200,
                                         NoneV, NoneV, NoData, result, checked))
             /\ UNCHANGED <<exercises, cache_enabled, soundfont, issued, workers>>

\* ExerciseInstructionsView.get
ExerciseInstructionsView_get(exercise_id) ==
    /\ last' = IF get_exercise(exercise_id) = NoExercise
               THEN not_found("instructions", exercise_id)
               ELSE Outcome("instructions", exercise_id, "success", 200, NoneV,
                            NoneV, NoData, NoResult,
                            [NoEffects EXCEPT !.other_calls = 2])
    /\ UNCHANGED <<exercises, cache_enabled, soundfont, media_audio, cache, completed,
                   last_synth, issued, workers>>

----------------------------------------------------------------------------
(* The sequential specification: every call runs to completion *)

IdleWorker == [pc |-> "idle", req |-> NoReq, output_path |-> NoPath,
               offset |-> 0, result |-> NoPath, result_complete |-> TRUE,
               rendered |-> FALSE]

Init ==
    /\ cache_enabled \in BOOLEAN
    /\ soundfont \in BOOLEAN
    /\ media_audio = <<>>
    /\ cache = [k \in {} |-> NoFile]
    /\ completed = {}
    /\ last_synth = NoLog
    /\ issued = [id |-> NoneV, data |-> NoData]
    /\ last = NoOutcome
    /\ workers = [w \in 1..NumWorkers |-> IdleWorker]
    /\ exercises = exercise_registry

\* the exercise layer runs without a soundfont (SOUNDFONT_PATH unset, as in
\* the test settings); the backend choice is explored by SynthSpec
ApiInit == Init /\ ~soundfont

\* the draws a call does not consume are left at their first value
Draws(consumed) ==
    IF consumed
    THEN {[n |-> n, r |-> r, f |-> f] :
              n \in NoteDraws, r \in RandDraws,
              f \in IF soundfont THEN BOOLEAN ELSE {FALSE}}
    ELSE {[n |-> reference_notes[1], r |-> 0, f |-> FALSE]}

\* the core contract: generate and check_answer called on the instances
Next ==
    \/ \E id \in RegisteredIds, config \in GenConfigs, d \in Draws(TRUE) :
            Generate(id, config, d.n, d.r, d.f)
    \/ \E answer \in Answers \cup {issued.data.correct_answer},
          kind \in ContextKinds : CheckAnswer(answer, kind)

Spec == ApiInit /\ [][Next]_vars

\* the HTTP layer: the four exercise entry points
ViewNext ==
    \/ \E id \in RequestIds : ExerciseDetailView_get(id)
    \/ \E id \in RequestIds, query \in QueryConfigs :
          \E d \in Draws(get_exercise(id) # NoExercise) :
            ExerciseGenerateView_get(id, query, d.n, d.r, d.f)
    \/ \E id \in CheckIds,
          answer \in Answers \cup {NoneV, issued.data.correct_answer},
          kind \in ContextKinds :
          \E d \in Draws(get_exercise(id) # NoExercise /\ answer # NoneV
                         /\ "correct_answer" \notin DOMAIN ClientContext(kind)) :
            ExerciseCheckView_post(id, answer, kind, d.n, d.r, d.f)
    \/ \E id \in RequestIds : ExerciseInstructionsView_get(id)

ViewSpec == ApiInit /\ [][ViewNext]_vars

----------------------------------------------------------------------------
(* The synthesizer alone: direct synthesize_* calls, run to completion *)

----------------------------------------------------------------------------
(* Audio handles and the audio retrieval endpoint *)

\* settings.MEDIA_URL; the settings module that sets it is not part of the
\* sources, so both a media prefix and the API prefix are explored
MediaUrls == {"/media/", "/api/"}

\* os.path.basename of a path: a mkstemp name is told by its number, a cache
\* file name by its key; both end in ".wav"
file_name(path) == [n |-> path.n, key |-> path.key, ext |-> ".wav"]

NoFileName == [n |-> 0, key |-> NoKey, ext |-> NoneV]

\* AudioSynthesizer.get_audio_url on a path under MEDIA_ROOT:
\* f"{settings.MEDIA_URL}{relative_path}", as the prefix, the segments of the
\* relative path and whether a "/" ends it
get_audio_url(audio_path, media_url) ==
    [prefix |-> media_url,
     segments |-> IF audio_path.dir = "audio/cache"
                  THEN <<"audio", "cache", file_name(audio_path)>>
                  ELSE <<"audio", file_name(audio_path)>>,
     trailing_slash |-> FALSE]

\* the route "audio/<str:filename>/" under /api/: the filename it captures,
\* or none when the URL does not match (a str segment holds no "/")
audio_route(url) ==
    IF /\ url.prefix = "/api/"
       /\ Len(url.segments) = 2
       /\ url.segments[1] = "audio"
       /\ url.trailing_slash
    THEN url.segments[2] ELSE NoFileName

\* AudioFileView.get(filename): MEDIA_ROOT/audio first, then audio/cache
AudioFileView_get(filename) ==
    LET primary_path == [n |-> filename.n, dir |-> "audio", key |-> filename.key]
        cache_path == [n |-> filename.n, dir |-> "audio/cache", key |-> filename.key]
        file_path == IF Exists(primary_path) /\ filename.key = NoKey
                     THEN primary_path ELSE cache_path
        found == file_path = primary_path
                 \/ (filename.n = 0 /\ Exists(cache_path))
    IN  IF ~found
        THEN [kind |-> "not_found", file |-> NoPath, content_type |-> NoneV]
        ELSE [kind |-> "success", file |-> file_path,
              content_type |-> IF filename.ext = ".wav" THEN "audio/wav"
                               ELSE IF filename.ext = ".mp3" THEN "audio/mpeg"
                               ELSE "audio/wav"]

\* a client fetches the audio of a call that returned: the handle that
\* get_audio_url makes of the returned path, requested as a URL
FetchAudio(c, media_url) ==
    LET url == get_audio_url(c.path, media_url)
        filename == audio_route(url)
    IN  /\ last' = [args |-> [path |-> c.path, media_url |-> media_url],
                    op |-> "audio_file",
                    result |-> [url |-> url,
                                routed |-> filename # NoFileName,
                                response |-> IF filename = NoFileName
                                             THEN [kind |-> "not_found",
                                                   file |-> NoPath,
                                                   content_type |-> NoneV]
                                             ELSE AudioFileView_get(filename)]]
        /\ UNCHANGED <<exercises, cache_enabled, soundfont, media_audio, cache,
                       completed, last_synth, issued, workers>>

SynthNext ==
    \/ \E req \in SynthRequests, f \in IF soundfont THEN BOOLEAN ELSE {FALSE} :
          Synthesize(req, f)
    \/ \E c \in completed, media_url \in MediaUrls : FetchAudio(c, media_url)

SynthSpec == Init /\ [][SynthNext]_vars

----------------------------------------------------------------------------
(* Concurrent synthesize_harmonic_interval calls: each request thread runs  *)
(* the method step by step; shutil.copy2 opens the cache file for writing   *)
(* (creating or truncating it) and then writes it chunk by chunk            *)

\* the requests of the concurrent calls
ConcRequests ==
    {SynthReq("harmonic_interval", <<C4, E4>>, <<>>, <<15>>),
     SynthReq("harmonic_interval", <<C4, G4>>, <<>>, <<15>>)}

WorkerKey(w) == generate_cache_key(content_string(workers[w].req))

\* a request thread enters synthesize_harmonic_interval
Call(w, req) ==
    /\ workers[w].pc = "idle"
    /\ workers' = [workers EXCEPT ![w] = [IdleWorker EXCEPT !.pc = "check",
                                                             !.req = req]]
    /\ UNCHANGED <<exercises, cache_enabled, soundfont, media_audio, cache, completed,
                   last_synth, issued, last>>

\* if self._is_cached(cache_key): return self._get_cached_audio(cache_key)
CheckCache(w) ==
    /\ workers[w].pc = "check"
    /\ workers' = [workers EXCEPT ![w] =
           IF is_cached(WorkerKey(w))
           THEN [@ EXCEPT !.pc = "done",
                          !.result = get_cache_path(WorkerKey(w)),
                          !.result_complete =
                              Complete(FileAt(get_cache_path(WorkerKey(w))))]
           ELSE [@ EXCEPT !.pc = "mkstemp"]]
    /\ UNCHANGED <<exercises, cache_enabled, soundfont, media_audio, cache, completed,
                   last_synth, issued, last>>

\* tempfile.mkstemp: a new, empty file of MEDIA_ROOT/audio
MakeTemp(w) ==
    /\ workers[w].pc = "mkstemp"
    /\ Len(media_audio) < MaxTemp
    /\ media_audio' = Append(media_audio,
                             [exists |-> TRUE, wave |-> NoWave, written |-> 0,
                              source |-> workers[w].req])
    /\ workers' = [workers EXCEPT ![w] =
           [@ EXCEPT !.pc = "render",
                     !.output_path = TempPath(Len(media_audio) + 1)]]
    /\ UNCHANGED <<exercises, cache_enabled, soundfont, cache, completed, last_synth,
                   issued, last>>

\* self._create_harmonic_interval_wav(output_path, ...): the thread's own
\* file is written to the end
Render(w, fs_raises) ==
    /\ workers[w].pc = "render"
    /\ media_audio' = [media_audio EXCEPT ![workers[w].output_path.n] =
           WrittenFile(create_wav(workers[w].req, fs_raises).wave, workers[w].req)]
    /\ workers' = [workers EXCEPT ![w] =
           [@ EXCEPT !.pc = IF cache_enabled THEN "copy_open" ELSE "return",
                     !.rendered = TRUE]]
    /\ UNCHANGED <<exercises, cache_enabled, soundfont, cache, completed, last_synth,
                   issued, last>>

\* shutil.copy2 opens the cache path for writing: the file exists, empty
CopyOpen(w) ==
    /\ workers[w].pc = "copy_open"
    /\ cache' = cache_audio(cache, WorkerKey(w),
                            [FileAt(workers[w].output_path) EXCEPT !.written = 0])
    /\ workers' = [workers EXCEPT ![w] = [@ EXCEPT !.pc = "copy_write",
                                                   !.offset = 0]]
    /\ UNCHANGED <<exercises, cache_enabled, soundfont, media_audio, completed, last_synth,
                   issued, last>>

\* shutil.copy2 writes its next chunk at its own offset; written is the
\* length of the file's valid prefix
CopyWrite(w) ==
    /\ workers[w].pc = "copy_write"
    /\ LET k == WorkerKey(w)
           o == workers[w].offset
       IN  /\ cache' = [cache EXCEPT ![k] =
                   [@ EXCEPT !.written = IF @ = o THEN o + 1 ELSE @]]
           /\ workers' = [workers EXCEPT ![w] =
                   [@ EXCEPT !.offset = o + 1,
                             !.pc = IF o + 1 = FileChunks THEN "return"
                                    ELSE "copy_write"]]
    /\ UNCHANGED <<exercises, cache_enabled, soundfont, media_audio, completed, last_synth,
                   issued, last>>

\* return output_path: the cache path when caching, else the mkstemp path
Return(w) ==
    /\ workers[w].pc = "return"
    /\ LET path == IF cache_enabled THEN get_cache_path(WorkerKey(w))
                   ELSE workers[w].output_path
       IN  workers' = [workers EXCEPT ![w] =
               [@ EXCEPT !.pc = "done", !.result = path,
                         !.result_complete = Complete(FileAt(path))]]
    /\ UNCHANGED <<exercises, cache_enabled, soundfont, media_audio, cache, completed,
                   last_synth, issued, last>>

\* the caller has its path; the thread serves the next request
Finish(w) ==
    /\ workers[w].pc = "done"
    /\ workers' = [workers EXCEPT ![w] = IdleWorker]
    /\ UNCHANGED <<exercises, cache_enabled, soundfont, media_audio, cache, completed,
                   last_synth, issued, last>>

ConcNext ==
    \/ \E w \in 1..NumWorkers, req \in ConcRequests : Call(w, req)
    \/ \E w \in 1..NumWorkers : CheckCache(w)
    \/ \E w \in 1..NumWorkers : MakeTemp(w)
    \/ \E w \in 1..NumWorkers : Render(w, FALSE)
    \/ \E w \in 1..NumWorkers : CopyOpen(w)
    \/ \E w \in 1..NumWorkers : CopyWrite(w)
    \/ \E w \in 1..NumWorkers : Return(w)
    \/ \E w \in 1..NumWorkers : Finish(w)

ConcSpec == ApiInit /\ [][ConcNext]_vars

----------------------------------------------------------------------------
(* Properties of the core contract (Spec) *)

\* C1: generate/check round trip.  When check_answer is called with the
\* correct answer of the issued ExerciseData and with its context exactly as
\* generate returned it, the result is correct and carries that answer.
RoundTripReproducesAnswer ==
    (/\ last.op = "check_answer"
     /\ last.context_kind = "as_issued"
     /\ last.answer = issued.data.correct_answer)
    => (/\ last.result.is_correct
        /\ last.result.correct_answer = issued.data.correct_answer)

\* C3: every ExerciseData that generate returns has a non-empty options
\* list of which its correct_answer is a member, whatever the configuration
\* (caller-supplied probability maps included).
CorrectAnswerAmongOptions ==
    (last.op = "generate" /\ last.kind = "returned")
    => (/\ Len(issued.data.options) > 0
        /\ issued.data.correct_answer \in SeqToSet(issued.data.options))

----------------------------------------------------------------------------
(* Properties of the HTTP layer (ViewSpec) *)

ViewOps == {"detail", "generate_view", "check_view", "instructions"}

\* the messages of the internal_error responses
FixedMessages ==
    {"Failed to generate exercise", "Failed to check answer",
     "Failed to get instructions"}

\* C2: an answer-check request never invokes generate: no random draw, no
\* rendering, no cache write, and the correct answer it reports is the one
\* of the submitted context.
CheckNeverGenerates ==
    last.op = "check_view"
    => (/\ last.effects.gen_calls = 0
        /\ last.effects.draws = 0
        /\ last.effects.renders = 0
        /\ last.effects.cache_writes = 0
        /\ (last.kind = "success"
            => last.result.correct_answer
                   = Get(ClientContext(last.context_kind), "correct_answer", NoneV)))

\* C9: a request for an exercise id that is not in the registry gets the
\* not_found outcome at every entry point, whatever its body or query, and
\* the step invokes no exercise operation, renders nothing and leaves the
\* files and the issued data as they were.
UnknownIdIsNotFound ==
    [][(last'.op \in ViewOps /\ last'.id \notin RegisteredIds)
       => (/\ last'.kind = "not_found"
           /\ last'.status = 404
           /\ last'.effects = NoEffects
           /\ UNCHANGED <<media_audio, cache, completed, last_synth, issued>>)]_vars

\* a check request with an answer and a context, for an unknown id, made
\* after an exercise was issued, was answered not_found
UnknownIdCheckSeen ==
    /\ last.op = "check_view"
    /\ last.id \notin RegisteredIds
    /\ last.answer \notin {NoneV, ""}
    /\ last.context_kind = "as_issued"
    /\ issued.id \in RegisteredIds
    /\ last.kind = "not_found"

\* C10 as stated: the outcome of a generate, check-answer or instructions
\* request is not_found, a success or the generic internal_error.
OutcomeIsOneOfThree ==
    last.op \in {"generate_view", "check_view", "instructions"}
    => (/\ last.kind \in {"not_found", "success", "internal_error"}
        /\ (last.kind = "internal_error" => last.message \in FixedMessages))

\* C10, amended: the outcome of a generate, check-answer or instructions
\* request is one of four kinds: not_found (404), a success (200), a
\* validation_error carrying the serializer's errors (400 for a request
\* without an answer, 500 when the produced data or result does not
\* serialize), or internal_error (500) with a fixed message and no details;
\* an instructions request never yields validation_error.
OutcomeIsOneOfFour ==
    last.op \in {"generate_view", "check_view", "instructions"}
    => (/\ last.kind \in {"not_found", "success", "validation_error",
                          "internal_error"}
        /\ (last.kind = "not_found" => last.status = 404)
        /\ (last.kind = "success" => last.status = 200)
        /\ (last.kind = "internal_error"
            => (/\ last.status = 500
                /\ last.message \in FixedMessages
                /\ last.details = NoneV))
        /\ (last.kind = "validation_error"
            => (/\ last.op # "instructions"
                /\ last.status \in {400, 500}
                /\ (last.op = "check_view"
                    => (last.status = 400 <=> last.answer = NoneV))
                /\ last.details = "serializer.errors")))

\* a check request for a registered exercise, sent without an answer, was
\* answered validation_error 400
ValidationErrorSeen ==
    /\ last.op = "check_view"
    /\ last.kind = "validation_error"
    /\ last.status = 400
    /\ last.id \in RegisteredIds

----------------------------------------------------------------------------
(* Properties of the synthesizer (SynthSpec) *)

\* C4: with caching enabled, a synthesize_* call whose canonical description
\* was already completed by an earlier call renders nothing and returns the
\* cache path every call with that description returned, whatever calls
\* came in between.
CachedCallRendersNothing ==
    (cache_enabled /\ last.op = "synthesize" /\ last_synth.prior)
    => (/\ last_synth.renders = 0
        /\ last_synth.path = get_cache_path(generate_cache_key(last_synth.content))
        /\ \A c \in completed :
               c.content = last_synth.content => c.path = last_synth.path)

\* a description was completed, another one was completed after it, and a
\* later call with one of them was served from the cache
CachedCallAfterOthers ==
    /\ cache_enabled
    /\ last.op = "synthesize"
    /\ last_synth.prior
    /\ last_synth.hit
    /\ Cardinality(CompletedContents) >= 2

\* C5: requests that differ in a note, the order of notes, a duration, the
\* gap or the delay get different cache keys, for every request type, and a
\* cache hit returns a file that was rendered for the very same request.
DifferentRequestsDifferentKeys ==
    /\ \A a, b \in completed :
           a.req # b.req
           => generate_cache_key(a.content) # generate_cache_key(b.content)
    /\ (last_synth.hit => FileAt(last_synth.path).source = last_synth.req)

\* C6: with caching disabled every synthesize_* call renders anew: it
\* returns a mkstemp path no earlier call returned, every returned file
\* exists completely written, and the cache directory is neither read nor
\* written and stays empty.
UncachedCallRendersAnew ==
    (~cache_enabled /\ last.op = "synthesize")
    => (/\ last_synth.renders = 1
        /\ ~last_synth.hit
        /\ last_synth.cache_reads = 0
        /\ last_synth.cache_writes = 0
        /\ last_synth.fresh
        /\ last_synth.path.dir = "audio"
        /\ DOMAIN cache = {}
        /\ \A c \in completed : Exists(c.path) /\ Complete(FileAt(c.path)))

\* with caching disabled, the same request was made twice
UncachedCallRepeated ==
    /\ ~cache_enabled
    /\ last.op = "synthesize"
    /\ last_synth.prior
    /\ \E a, b \in completed : a.req = b.req /\ a.path # b.path

\* C8: when the soundfont backend is selected for a melodic, harmonic or
\* staggered interval and raises, the synthetic renderer runs once with the
\* same arguments and the synthesize call returns normally, with the path of
\* a completely written file holding the synthetic waveform.
BackendFailureFallsBack ==
    (last.op = "synthesize" /\ last_synth.backend_raised)
    => (/\ last_synth.synthetic_runs = 1
        /\ last_synth.synthetic_args = last_synth.req
        /\ ~last_synth.raises
        /\ last.kind = "returned"
        /\ Exists(last_synth.path)
        /\ Complete(FileAt(last_synth.path))
        /\ FileAt(last_synth.path).wave = create_synthetic(last_synth.req))

\* the backend raised while rendering a staggered interval
BackendRaisedOnStaggered ==
    /\ last.op = "synthesize"
    /\ last_synth.backend_raised
    /\ last_synth.req.type = "staggered_interval"

----------------------------------------------------------------------------
(* Properties of concurrent calls (ConcSpec) *)

\* C7: under any interleaving of concurrent synthesize_* calls, every path
\* returned to a caller names a completely written file: the one the call
\* wrote itself, or the cache entry it found as cached.
ReturnedFilesAreComplete ==
    \A w \in 1..NumWorkers :
        workers[w].pc = "done" => workers[w].result_complete

----------------------------------------------------------------------------
(* music_app/chords.py and the mingus triads it calls *)

\* mingus.core.intervals: the note `letters` letters above note, altered
\* until it lies `semis` semitones above it
\* (augment_or_diminish_until_the_interval_is_right)
interval_above(note, letters, semis) ==
    LET p == CHOOSE q \in Spellings : Spell(q[1], q[2]) = note
        letter == reference_notes[((IndexOf(reference_notes, p[1], 1) - 1 + letters) % 7) + 1]
        cur == PyMod(note_dict(letter) - note_to_int(note), 12)
    IN  Spell(letter, semis - cur)

\* mingus.core.chords triads: NoteFormatError for a root that is no note
major_triad(root) ==
    <<root, interval_above(root, 2, 4), interval_above(root, 4, 7)>>

minor_triad(root) ==
    <<root, interval_above(root, 2, 3), interval_above(root, 4, 7)>>

diminished_triad(root) ==
    <<root, interval_above(root, 2, 3), interval_above(root, 4, 6)>>

augmented_triad(root) ==
    <<root, interval_above(root, 2, 4), interval_above(root, 4, 8)>>

suspended_second_triad(root) ==
    <<root, interval_above(root, 1, 2), interval_above(root, 4, 7)>>

suspended_fourth_triad(root) ==
    <<root, interval_above(root, 3, 5), interval_above(root, 4, 7)>>

\* normalize_note: the five flats of flat_to_sharp, any other name unchanged
normalize_note(note) ==
    CASE note = "Db" -> "C#"
      [] note = "Eb" -> "D#"
      [] note = "Gb" -> "F#"
      [] note = "Ab" -> "G#"
      [] note = "Bb" -> "A#"
      [] OTHER -> note

\* list.index: ValueError when the name is not in note_order
InNoteOrder(note) == IndexOf(note_order, note, 1) # 0

Max(a, b) == IF a >= b THEN a ELSE b

Min(a, b) == IF a <= b THEN a ELSE b

\* a chord function that raised
ChordRaised == [notes |-> <<>>, raises |-> TRUE]

\* _add_octaves_to_chord_notes: the root keeps the base octave; a tone whose
\* index in note_order is below the root's goes one octave up; the octave of
\* every tone but the root is clamped to 1..7
add_octaves_to_chord_notes(chord_notes, octave) ==
    LET normalized_notes == [i \in 1..Len(chord_notes) |-> normalize_note(chord_notes[i])]
        root_index == IndexOf(note_order, normalized_notes[1], 1) - 1
        note_index(i) == IndexOf(note_order, normalized_notes[i], 1) - 1
        octaves(i) ==
            IF i = 1 THEN octave
            ELSE Max(1, Min(7, IF note_index(i) < root_index
                               THEN octave + 1 ELSE octave))
    IN  IF \E i \in 1..Len(chord_notes) : ~InNoteOrder(normalized_notes[i])
        THEN ChordRaised
        ELSE [notes |-> [i \in 1..Len(chord_notes) |-> <<chord_notes[i], octaves(i)>>],
              raises |-> FALSE]

\* a variant that answers with the perfect fifth whatever the interval
get_note_with_interval_always_fifth(root, semitones) ==
    LET normalized_root == normalize_note(root)
        root_index == IndexOf(note_order, normalized_root, 1) - 1
    IN  IF InNoteOrder(normalized_root)
        THEN [note |-> note_order[((root_index + 7) % 12) + 1], raises |-> FALSE]
        ELSE [note |-> NoneV, raises |-> TRUE]

\* _get_note_with_interval
get_note_with_interval(root, semitones) ==
    LET normalized_root == normalize_note(root)
        root_index == IndexOf(note_order, normalized_root, 1) - 1
    IN  IF InNoteOrder(normalized_root)
        THEN [note |-> note_order[((root_index + semitones) % 12) + 1], raises |-> FALSE]
        ELSE [note |-> NoneV, raises |-> TRUE]

\* get_chord_notes_with_octaves
get_chord_notes_with_octaves(root, chord_type, octave) ==
    IF ~is_valid_note(root) THEN ChordRaised
    ELSE LET chord_notes ==
                 CASE chord_type = "major" -> major_triad(root)
                   [] chord_type = "minor" -> minor_triad(root)
                   [] chord_type = "diminished" -> diminished_triad(root)
                   [] chord_type = "augmented" -> augmented_triad(root)
                   [] chord_type = "sus2" -> suspended_second_triad(root)
                   [] chord_type = "sus4" -> suspended_fourth_triad(root)
                   [] chord_type = "3m" -> minor_triad(root)
                   [] chord_type = "3M" -> major_triad(root)
                   [] OTHER -> major_triad(root)
         IN  add_octaves_to_chord_notes(chord_notes, octave)

\* get_fifth_quality_chord
get_fifth_quality_chord(root, fifth_quality, octave) ==
    IF ~is_valid_note(root) THEN ChordRaised
    ELSE LET triad == major_triad(root)
             fifth == IF fifth_quality = "5dim" THEN get_note_with_interval(root, 6)
                      ELSE IF fifth_quality = "5aug" THEN get_note_with_interval(root, 8)
                      ELSE [note |-> triad[3], raises |-> FALSE]
         IN  IF fifth.raises THEN ChordRaised
             ELSE add_octaves_to_chord_notes(<<triad[1], triad[2], fifth.note>>, octave)

\* get_chord_display_name
get_chord_display_name(chord_type) ==
    CASE chord_type = "major" -> "major"
      [] chord_type = "minor" -> "minor"
      [] chord_type = "diminished" -> "diminished"
      [] chord_type = "augmented" -> "augmented"
      [] chord_type = "sus2" -> "suspended 2nd"
      [] chord_type = "sus4" -> "suspended 4th"
      [] chord_type = "3m" -> "minor"
      [] chord_type = "3M" -> "major"
      [] chord_type = "5dim" -> "diminished fifth"
      [] chord_type = "5J" -> "perfect fifth"
      [] chord_type = "5aug" -> "augmented fifth"
      [] OTHER -> chord_type

----------------------------------------------------------------------------
(* Configuration overrides as Python values *)

\* a value of **kwargs: absent, an int, or a str
PyAbsent == [kind |-> "absent", int |-> 0, text |-> NoneV]

PyInt(n) == [kind |-> "int", int |-> n, text |-> NoneV]

PyStr(s) == [kind |-> "str", int |-> 0, text |-> s]

Digits == <<"0", "1", "2", "3", "4", "5", "6", "7", "8", "9">>

\* int(value): an int is itself, a str of one digit is its number, any
\* other str raises ValueError
py_int(value) ==
    IF value.kind = "int" THEN [raises |-> FALSE, value |-> value.int]
    ELSE IF IndexOf(Digits, value.text, 1) # 0
    THEN [raises |-> FALSE, value |-> IndexOf(Digits, value.text, 1) - 1]
    ELSE [raises |-> TRUE, value |-> 0]

\* BaseExercise.validate_config: key is kept as a str; difficulty goes
\* through int() and is kept when it lies in 1..10
base_validate_config(key, difficulty) ==
    LET d == py_int(difficulty)
    IN  IF difficulty.kind # "absent" /\ d.raises
        THEN [key |-> NoneV, raises |-> TRUE, difficulty |-> 0]
        ELSE [key |-> key,
              raises |-> FALSE,
              difficulty |-> IF difficulty.kind # "absent"
                                /\ 1 <= d.value /\ d.value <= 10
                             THEN d.value ELSE 0]

\* transpose_note, lines 51-53, on the f-string "{reference_note}-{octave}"
\* that BaseIntervalExercise.generate builds from an octave override that
\* validate_config returned as it came: note.split("-") gives two parts
\* unless the printed octave holds a "-" itself, and int(octave_str) raises
\* ValueError on a text that is no number
split_octave(octave) ==
    IF octave.kind = "int" /\ octave.int < 0
    THEN [raises |-> TRUE, value |-> 0]
    ELSE py_int(octave)

\* BaseIntervalExercise.generate(interval=..., octave=value) for a present
\* octave override
generate_octave(ex, interval, octave, note_draw, r, fs_raises) ==
    LET o == split_octave(octave)
    IN  IF o.raises
        THEN [raises |-> TRUE, data |-> NoData, rendered |-> FALSE,
              media |-> media_audio, cache |-> cache, log |-> NoLog, draws |-> 2]
        ELSE generate(ex, Config(NoneV, interval, o.value, 0, NoProbs),
                      note_draw, r, fs_raises)

----------------------------------------------------------------------------
(* exercises/base/chord_exercise.py and level2/triad_exercises.py *)

\* BaseChordExercise.__init__ and _create_metadata: the instance
BaseChordExercise(chord_types, exercise_type) ==
    [exercise_type |-> exercise_type, family |-> "chord",
     metadata_id |-> exercise_type, chord_types |-> chord_types]

MajorMinorTriadExercise ==
    BaseChordExercise(<<"major", "minor">>, "major_minor_triads")

AllTriadTypesExercise ==
    BaseChordExercise(<<"major", "minor", "diminished", "augmented">>,
                      "all_triad_types")

SuspendedChordsExercise ==
    BaseChordExercise(<<"sus2", "sus4", "3m", "3M">>, "suspended_chords")

\* _get_chord_display_name, with the override of SuspendedChordsExercise
chord_display_name(ex, chord_type) ==
    IF ex.exercise_type = "suspended_chords" THEN chord_type
    ELSE get_chord_display_name(chord_type)

\* **kwargs of BaseChordExercise.generate; an absent str option is NoneV
ChordConfig(root_note, octave, chord_type, probs) ==
    [octave |-> octave, chord_type |-> chord_type, root_note |-> root_note,
     chord_probabilities |-> probs]

\* BaseChordExercise.validate_config: octave goes through int() and is kept
\* when it lies in 1..7 (0: not kept); chord_probabilities is kept when it
\* is a dict whose values sum to 1.0 within 0.001
chord_validate_config(ex, config) ==
    LET o == py_int(config.octave)
        probs == config.chord_probabilities
    IN  IF config.octave.kind # "absent" /\ o.raises
        THEN [raises |-> TRUE, octave |-> 0, chord_type |-> NoneV,
              root_note |-> NoneV, chord_probabilities |-> NoProbs]
        ELSE [raises |-> FALSE,
              octave |-> IF config.octave.kind # "absent"
                            /\ 1 <= o.value /\ o.value <= 7
                         THEN o.value ELSE 0,
              chord_type |-> IF config.chord_type \in SeqToSet(ex.chord_types)
                             THEN config.chord_type ELSE NoneV,
              root_note |-> config.root_note,
              chord_probabilities |->
                  IF probs.kind = "dict" /\ SumWeights(probs.items, 1) = ProbUnit
                  THEN probs ELSE NoProbs]

\* the default of chord_probabilities: 1.0 / len(chord_types) each
DefaultChordProbabilities(ex) ==
    [i \in 1..Len(ex.chord_types) |->
        <<ex.chord_types[i], ProbUnit \div Len(ex.chord_types)>>]

\* generate raised before it reached its synthesize_* call
RaisedBeforeRender(draws) ==
    [raises |-> TRUE, data |-> NoData, rendered |-> FALSE,
     media |-> media_audio, cache |-> cache, log |-> NoLog, draws |-> draws]

\* BaseChordExercise.generate(**kwargs); note_draw is the draw of
\* random.choice(available_notes), r the draw of weighted_choice
chord_generate(ex, kwargs, note_draw, r, fs_raises) ==
    LET config == chord_validate_config(ex, kwargs)
        root_note == IF config.root_note # NoneV THEN config.root_note
                     ELSE note_draw
        octave == IF config.octave # 0 THEN config.octave ELSE 4
        chord_probabilities ==
            IF config.chord_probabilities.kind = "absent"
            THEN DefaultChordProbabilities(ex)
            ELSE config.chord_probabilities.items
        drawn == weighted_choice(chord_probabilities, r)
        chord_type == IF config.chord_type # NoneV THEN config.chord_type
                      ELSE drawn.choice
        chord == get_chord_notes_with_octaves(root_note, chord_type, octave)
        s == synthesize(SynthReq("chord", chord.notes, <<>>, <<20>>), fs_raises)
        correct_answer == chord_display_name(ex, chord_type)
        context == [octave |-> octave, chord_notes |-> chord.notes,
                    chord_type |-> chord_type, root_note |-> root_note]
    IN  IF config.raises THEN RaisedBeforeRender(0)
        ELSE IF drawn.raises \/ chord.raises THEN RaisedBeforeRender(2)
        ELSE [raises |-> s.log.raises,
              data |-> IF s.log.raises THEN NoData
                       ELSE [key |-> <<root_note, correct_answer>>,
                             options |-> [i \in 1..Len(ex.chord_types) |->
                                             chord_display_name(ex, ex.chord_types[i])],
                             correct_answer |-> correct_answer,
                             target_audio |-> s.path,
                             context |-> context],
              rendered |-> TRUE,
              media |-> s.media, cache |-> s.cache, log |-> s.log, draws |-> 2]

\* BaseChordExercise.check_answer: the correct answer is derived from the
\* chord_type of the context
chord_check_answer(ex, answer, context) ==
    LET correct_answer == chord_display_name(ex, Get(context, "chord_type", ""))
        is_correct == (answer = correct_answer)
    IN  [correct_answer |-> correct_answer,
         is_correct |-> is_correct,
         feedback |-> IF is_correct THEN "Correct! This is a ... chord."
                      ELSE "Incorrect. This is a ... chord.",
         user_answer |-> answer]

----------------------------------------------------------------------------
(* generate called with configuration overrides *)

\* the outcome of a call that is no HTTP entry point: what was applied to
\* which arguments, and what came back
Applied(op, args, result) == [args |-> args, op |-> op, result |-> result]

\* octave overrides: in range, at the upper end, out of range, negative,
\* a numeric str and a str that is no number
OctaveOverrides ==
    {PyInt(5), PyInt(7), PyInt(8), PyInt(99), PyInt(-1), PyStr("5"), PyStr("abc")}

DifficultyOverrides ==
    {PyAbsent, PyInt(3), PyInt(11), PyStr("3"), PyStr("hard")}

IntervalOverrides == {NoneV, "octave"}

ChordExercises == {MajorMinorTriadExercise, AllTriadTypesExercise}

ChordConfigs ==
    {ChordConfig(NoneV, PyAbsent, NoneV, NoProbs),
     ChordConfig("H", PyAbsent, NoneV, NoProbs),
     ChordConfig("A", PyInt(7), "minor", NoProbs),
     ChordConfig("F", PyAbsent, "diminished", NoProbs),
     ChordConfig(NoneV, PyAbsent, NoneV,
                 [kind |-> "dict", items |-> <<<<"minor", 90>>, <<"major", 0>>>>]),
     ChordConfig(NoneV, PyAbsent, NoneV,
                 [kind |-> "dict", items |-> <<<<"minor", ProbUnit>>, <<"major", 0>>>>])}
    \cup {ChordConfig(NoneV, o, NoneV, NoProbs) : o \in OctaveOverrides}

\* OverrideSpec looks at one call at a time: the first call made on a server
\* that has rendered nothing yet
FirstCall == last = NoOutcome

\* BaseExercise.validate_config(config), as the generate of an exercise
\* that keeps the base validation calls it first
ValidateBase(key, difficulty) ==
    /\ FirstCall
    /\ last' = Applied("base_validate_config",
                       [key |-> key, difficulty |-> difficulty],
                       base_validate_config(key, difficulty))
    /\ UNCHANGED <<exercises, cache_enabled, soundfont, media_audio, cache, completed,
                   last_synth, issued, workers>>

\* exercise.generate(interval=..., octave=...) on a registered instance
GenerateOctave(id, interval, octave, note_draw, r, fs_raises) ==
    /\ FirstCall
    /\ \E g \in {generate_octave(exercise_registry[id], interval, octave,
                   note_draw, r, fs_raises)} :
            /\ CanGenerate(g)
            /\ ApplyGenerate(g)
            /\ issued' = IF g.raises THEN issued ELSE [id |-> id, data |-> g.data]
            /\ last' = Applied("interval_generate",
                               [interval |-> interval, id |-> id, octave |-> octave],
                               [raises |-> g.raises, data |-> g.data,
                                rendered |-> g.rendered])
            /\ UNCHANGED <<exercises, cache_enabled, soundfont, workers>>

\* exercise.generate(**config) on a chord exercise
ChordGenerate(ex, config, note_draw, r, fs_raises) ==
    /\ FirstCall
    /\ \E g \in {chord_generate(ex, config, note_draw, r, fs_raises)} :
            /\ CanGenerate(g)
            /\ ApplyGenerate(g)
            /\ issued' = IF g.raises THEN issued
                         ELSE [id |-> ex.metadata_id, data |-> g.data]
            /\ last' = Applied("chord_generate",
                               [r |-> r, id |-> ex.metadata_id, config |-> config],
                               [raises |-> g.raises, data |-> g.data,
                                rendered |-> g.rendered])
            /\ UNCHANGED <<exercises, cache_enabled, soundfont, workers>>

\* interval_probabilities overrides whose weights do not sum to 1
WeightOverrides ==
    {[kind |-> "dict", items |-> <<<<"octave", 90>>, <<"perfect_fifth", 0>>>>],
     [kind |-> "dict", items |-> <<<<"major_third", 20>>, <<"octave", 20>>>>]}

\* exercise.generate(interval_probabilities=...) on a registered instance
GenerateWeighted(id, probs, note_draw, r, fs_raises) ==
    /\ FirstCall
    /\ \E g \in {generate(exercise_registry[id], Config(NoneV, NoneV, 0, 0, probs),
                   note_draw, r, fs_raises)} :
            /\ CanGenerate(g)
            /\ ApplyGenerate(g)
            /\ issued' = IF g.raises THEN issued ELSE [id |-> id, data |-> g.data]
            /\ last' = Applied("interval_generate_weighted",
                               [r |-> r, id |-> id, interval_probabilities |-> probs],
                               [raises |-> g.raises, data |-> g.data,
                                rendered |-> g.rendered])
            /\ UNCHANGED <<exercises, cache_enabled, soundfont, workers>>

OverrideNext ==
    \/ \E key \in {NoneV, "C"}, difficulty \in DifficultyOverrides :
          ValidateBase(key, difficulty)
    \/ \E id \in RegisteredIds, probs \in WeightOverrides, d \in Draws(TRUE) :
          GenerateWeighted(id, probs, d.n, d.r, d.f)
    \/ \E id \in RegisteredIds, interval \in IntervalOverrides,
          octave \in OctaveOverrides, d \in Draws(TRUE) :
          GenerateOctave(id, interval, octave, d.n, d.r, d.f)
    \/ \E ex \in ChordExercises, config \in ChordConfigs, d \in Draws(TRUE) :
          ChordGenerate(ex, config, d.n, d.r, d.f)

OverrideSpec == ApiInit /\ [][OverrideNext]_vars

----------------------------------------------------------------------------
(* Properties of configuration overrides (OverrideSpec) *)

\* an override that is malformed for the range lo..hi: a value that is no
\* number, or a number outside the range
Malformed(value, lo, hi) ==
    /\ value.kind # "absent"
    /\ \/ py_int(value).raises
       \/ py_int(value).value < lo
       \/ py_int(value).value > hi

\* C11: a malformed configuration override (a difficulty or an octave of the
\* wrong type or out of range) never makes generate fail: the call returns,
\* the override is dropped and the default is used in its place (no
\* difficulty, octave 4), for the base, interval and chord families.
MalformedOverrideIsDropped ==
    /\ (last.op = "base_validate_config" /\ Malformed(last.args.difficulty, 1, 10))
       => (~last.result.raises /\ last.result.difficulty = 0)
    /\ (last.op = "interval_generate" /\ Malformed(last.args.octave, 1, 8))
       => (/\ ~last.result.raises
           /\ last.result.data.context.octave = 4)
    /\ (last.op = "chord_generate" /\ Malformed(last.args.config.octave, 1, 8))
       => (/\ ~last.result.raises
           /\ last.result.data.context.octave = 4)

----------------------------------------------------------------------------
(* audio_app/synthesizer.py : note names to numbers *)

\* note_map.get(name, default) of _note_to_midi_number and _note_to_frequency
note_map(name, default) ==
    CASE name = "C" -> 0
      [] name = "C#" -> 1
      [] name = "Db" -> 1
      [] name = "D" -> 2
      [] name = "D#" -> 3
      [] name = "Eb" -> 3
      [] name = "E" -> 4
      [] name = "F" -> 5
      [] name = "F#" -> 6
      [] name = "Gb" -> 6
      [] name = "G" -> 7
      [] name = "G#" -> 8
      [] name = "Ab" -> 8
      [] name = "A" -> 9
      [] name = "A#" -> 10
      [] name = "Bb" -> 10
      [] name = "B" -> 11
      [] OTHER -> default

\* AudioSynthesizer._note_to_midi_number on a note <<name, octave>>
note_to_midi_number(note) == (note[2] + 1) * 12 + note_map(note[1], 0)

\* AudioSynthesizer._note_to_frequency, as the number of semitones from A4
\* of which the frequency is 440 * 2 ** (semitones / 12)
note_to_frequency(note) == note_map(note[1], 9) + (note[2] - 4) * 12 - 9

----------------------------------------------------------------------------
(* The theory helpers applied to their arguments *)

\* a call of a function without side effects, and what it returned; one
\* call is looked at in each behaviour
Apply(op, args, result) ==
    /\ FirstCall
    /\ last' = Applied(op, args, result)
    /\ UNCHANGED <<exercises, cache_enabled, soundfont, media_audio, cache, completed,
                   last_synth, issued, workers>>

\* roots of chords: the configured root notes and two altered ones
ChordRoots == SeqToSet(reference_notes) \cup {"Bb", "F#"}

ChordTypes ==
    {"major", "minor", "diminished", "augmented", "sus2", "sus4", "3m", "3M"}

\* the octaves BaseChordExercise.validate_config accepts
ChordOctaves == 1..7

GetChordNotesWithOctaves(root, chord_type, octave) ==
    Apply("get_chord_notes_with_octaves",
          [octave |-> octave, root |-> root, chord_type |-> chord_type],
          get_chord_notes_with_octaves(root, chord_type, octave))

\* the note names the note helpers accept: the sharps of note_order and the
\* five flats of the note maps
NoteNames == SeqToSet(note_order) \cup {"Db", "Eb", "Gb", "Ab", "Bb"}

\* octaves of the notes that are transposed
NoteOctaves == 1..8

\* semitones range over -MaxSemitones..MaxSemitones
MaxSemitones == 24

\* transpose_note(transpose_note(note, n), -n)
TransposeThereAndBack(note, n) ==
    LET there == transpose_note(note, n)
    IN  Apply("transpose_note", [n |-> n, note |-> note],
              [there |-> there, back |-> transpose_note(there, -n)])

\* the keys of interval_map, display_names and notation_map of
\* BaseIntervalExercise (the three dicts have the same keys)
interval_table_keys ==
    {"unison", "minor_second", "major_second", "minor_third", "major_third",
     "perfect_fourth", "augmented_fourth", "diminished_fifth", "perfect_fifth",
     "minor_sixth", "major_sixth", "minor_seventh", "major_seventh", "octave"}

\* BaseExercise.get_intervals
get_intervals ==
    <<"unison", "minor_second", "major_second", "minor_third", "major_third",
      "perfect_fourth", "tritone", "perfect_fifth", "minor_sixth",
      "major_sixth", "minor_seventh", "major_seventh", "octave">>

\* interval_semitones.get(interval, 2) of StepVsLeapExercise._calculate_second_note
token_semitones(token) ==
    CASE token = "2m" -> 1
      [] token = "2M" -> 2
      [] token = "3m" -> 3
      [] token = "3M" -> 4
      [] token = "4J" -> 5
      [] token = "5J" -> 7
      [] token = "6m" -> 8
      [] token = "6M" -> 9
      [] token = "7m" -> 10
      [] token = "7M" -> 11
      [] token = "8J" -> 12
      [] OTHER -> 2

\* the lookups of one interval name: name to token, token to semitones,
\* name to semitones
LookUpInterval(name) ==
    Apply("interval_tables", [name |-> name],
          [semitones |-> get_interval_semitones(name),
           token_semitones |-> token_semitones(get_interval_notation(name)),
           token |-> get_interval_notation(name)])

\* names that are in none of the note tables and name no interval
UnrecognizedNames == {"H", "X#", "E#", "bogus"}

\* the note and interval operations applied to one name: the note at
\* octave 4 to its MIDI number and to its frequency (in semitones from A4),
\* the name as an interval to semitones, and the name as the second tone of
\* a chord on C to its octave
UnrecognizedName(name) ==
    Apply("unrecognized_name", [name |-> name],
          [semitones |-> get_interval_semitones(name),
           chord |-> add_octaves_to_chord_notes(<<"C", name>>, 4),
           midi |-> note_to_midi_number(<<name, 4>>),
           frequency |-> note_to_frequency(<<name, 4>>)])

\* the fifth qualities of FifthQualityExercise
FifthQualities == {"5dim", "5J", "5aug"}

GetFifthQualityChord(root, fifth_quality, octave) ==
    Apply("get_fifth_quality_chord",
          [octave |-> octave, root |-> root, fifth_quality |-> fifth_quality],
          get_fifth_quality_chord(root, fifth_quality, octave))

----------------------------------------------------------------------------
(* exercises/level1/direction_exercises.py: answers as texts, a text being
   the sequence of its characters *)

ascii_lowercase ==
    <<"a", "b", "c", "d", "e", "f", "g", "h", "i", "j", "k", "l", "m",
      "n", "o", "p", "q", "r", "s", "t", "u", "v", "w", "x", "y", "z">>

ascii_uppercase ==
    <<"A", "B", "C", "D", "E", "F", "G", "H", "I", "J", "K", "L", "M",
      "N", "O", "P", "Q", "R", "S", "T", "U", "V", "W", "X", "Y", "Z">>

is_cased(ch) ==
    IndexOf(ascii_lowercase, ch, 1) > 0 \/ IndexOf(ascii_uppercase, ch, 1) > 0

\* str.upper() of one character
to_upper(ch) ==
    IF IndexOf(ascii_lowercase, ch, 1) > 0
    THEN ascii_uppercase[IndexOf(ascii_lowercase, ch, 1)]
    ELSE ch

\* str.lower() of one character
to_lower(ch) ==
    IF IndexOf(ascii_uppercase, ch, 1) > 0
    THEN ascii_lowercase[IndexOf(ascii_uppercase, ch, 1)]
    ELSE ch

\* a variant of str.title() that leaves the text as it is
str_title_unchanged(text) == text

\* str.title(): a cased character is upper-cased when it follows an uncased
\* one (or starts the text) and lower-cased otherwise
str_title(text) ==
    [i \in 1..Len(text) |->
        IF i = 1 \/ ~is_cased(text[i - 1])
        THEN to_upper(text[i]) ELSE to_lower(text[i])]

\* HighOrLowDirectionExercise.check_answer, StepVsLeapExercise.check_answer
\* and MelodicShapesExercise.check_answer: the same code on the context
\* field "direction", "interval_type" or "shape"
direction_check_answer(field, answer, context) ==
    LET correct == str_title(Get(context, field, <<>>))
        is_correct == (str_title(answer) = correct)
    IN  [correct_answer |-> correct,
         is_correct |-> is_correct,
         feedback |-> IF is_correct THEN "Correct! Well done!"
                      ELSE "Incorrect. The correct answer was ...",
         user_answer |-> answer]

\* the values generate stores in the context field of each exercise
DomainWords(field) ==
    CASE field = "direction" ->
             {<<"h", "i", "g", "h", "e", "r">>, <<"l", "o", "w", "e", "r">>}
      [] field = "interval_type" ->
             {<<"s", "t", "e", "p">>, <<"l", "e", "a", "p">>}
      [] field = "shape" ->
             {<<"a", "r", "c", "h">>, <<"z", "i", "g", "z", "a", "g">>,
              <<"a", "s", "c", "e", "n", "d", "i", "n", "g">>,
              <<"d", "e", "s", "c", "e", "n", "d", "i", "n", "g">>}

DomainFields == {"direction", "interval_type", "shape"}

\* the letter-case variant of a word whose characters at the positions of
\* mask are upper case
CaseVariant(word, mask) ==
    [i \in 1..Len(word) |-> IF mask[i] THEN to_upper(word[i]) ELSE to_lower(word[i])]

\* the interval tokens submitted and stored as correct answers
IntervalTokens == {<<"3", "M">>, <<"3", "m">>, <<"8", "J">>}

\* check_answer of a direction, step/leap or shape exercise on a context
\* that generate issued and a letter-case variant of one of its options
CheckDirectionAnswer(field, correct_word, word, mask) ==
    Apply("direction_check_answer",
          [field |-> field, answer |-> CaseVariant(word, mask), word |-> word,
           correct_word |-> correct_word],
          direction_check_answer(field, CaseVariant(word, mask),
                                 (field :> correct_word)))

\* BaseIntervalExercise.check_answer on a context holding the correct token
CheckIntervalAnswer(token, mask, correct_answer) ==
    Apply("interval_check_answer",
          [correct_answer |-> correct_answer, answer |-> CaseVariant(token, mask)],
          check_answer(NoneV, CaseVariant(token, mask),
                       [correct_answer |-> correct_answer]))

----------------------------------------------------------------------------
(* exercises/level1/tonal_center_exercises.py and the note strings handed to
   the synthesizer.  A note string is the sequence of its parts in print
   order: the name, the "-" when one is printed, the octave digit. *)

\* str.join of the parts
JoinParts(parts) ==
    IF Len(parts) = 0 THEN ""
    ELSE IF Len(parts) = 1 THEN parts[1]
    ELSE IF Len(parts) = 2 THEN parts[1] \o parts[2]
    ELSE parts[1] \o parts[2] \o parts[3]

\* f"{note}-{octave}", as the interval, chord and direction exercises print
format_note(name, octave) == <<name, "-", Digits[octave + 1]>>

\* the parse of _note_to_frequency and _note_to_midi_number: with a "-"
\* the text splits into name and octave, without one the whole text is the
\* name and the octave is 4
parse_note(text) ==
    LET h == IndexOf(text, "-", 1)
    IN  IF h > 0
        THEN <<JoinParts(SubSeq(text, 1, h - 1)),
               py_int(PyStr(JoinParts(SubSeq(text, h + 1, Len(text))))).value>>
        ELSE <<JoinParts(text), 4>>

\* scale_patterns of _generate_tonal_melody; those of _get_scale_degree_note
\* are their first seven entries
scale_patterns(key) ==
    CASE key = "G" -> << <<"G", "4">>, <<"A", "4">>, <<"B", "4">>, <<"C", "5">>,
                         <<"D", "5">>, <<"E", "5">>, <<"F#", "5">>, <<"G", "5">> >>
      [] key = "D" -> << <<"D", "4">>, <<"E", "4">>, <<"F#", "4">>, <<"G", "4">>,
                         <<"A", "4">>, <<"B", "4">>, <<"C#", "5">>, <<"D", "5">> >>
      [] key = "A" -> << <<"A", "4">>, <<"B", "4">>, <<"C#", "5">>, <<"D", "5">>,
                         <<"E", "5">>, <<"F#", "5">>, <<"G#", "5">>, <<"A", "5">> >>
      [] key = "F" -> << <<"F", "4">>, <<"G", "4">>, <<"A", "4">>, <<"Bb", "4">>,
                         <<"C", "5">>, <<"D", "5">>, <<"E", "5">>, <<"F", "5">> >>
      [] key = "Bb" -> << <<"Bb", "4">>, <<"C", "5">>, <<"D", "5">>, <<"Eb", "5">>,
                          <<"F", "5">>, <<"G", "5">>, <<"A", "5">>, <<"Bb", "5">> >>
      [] key = "Eb" -> << <<"Eb", "4">>, <<"F", "4">>, <<"G", "4">>, <<"Ab", "4">>,
                          <<"Bb", "4">>, <<"C", "5">>, <<"D", "5">>, <<"Eb", "5">> >>
      [] OTHER -> << <<"C", "4">>, <<"D", "4">>, <<"E", "4">>, <<"F", "4">>,
                     <<"G", "4">>, <<"A", "4">>, <<"B", "4">>, <<"C", "5">> >>

\* FindHomeNoteExercise._generate_tonal_melody; steps are the draws of
\* random.choice([-2, -1, 1, 2]), one for each note but the last
RECURSIVE melody_from(_, _, _)
melody_from(scale, index, steps) ==
    IF Len(steps) = 0 THEN << scale[1] >>
    ELSE << scale[index + 1] >>
         \o melody_from(scale, Max(0, Min(Len(scale) - 1, index + steps[1])),
                        Tail(steps))

generate_tonal_melody(key, steps) == melody_from(scale_patterns(key), 0, steps)

\* ScaleDegreesWithSolfègeExercise._get_scale_degree_note
get_scale_degree_note(key, degree) == scale_patterns(key)[degree]

\* TonicTriadNotesExercise._get_triad_note
get_triad_note(key, solfege) ==
    CASE solfege = "Do" -> scale_patterns(key)[1]
      [] solfege = "Mi" -> scale_patterns(key)[3]
      [] solfege = "Sol" -> scale_patterns(key)[5]
      [] OTHER -> <<"C", "4">>

\* the keys of the tonal-centre exercises, and one that is none of them
TonalKeys == {"C", "G", "D", "A", "F", "Bb", "Eb", "H"}

StepDraws == {-2, -1, 1, 2}

\* the notes an exercise's generate hands to synthesize_notes, and what the
\* synthesizer's parsers read from each
NotesToEngine(exercise, key, draw, notes) ==
    Apply("notes_to_engine",
          [key |-> key, exercise |-> exercise, draw |-> draw],
          [notes |-> notes,
           midi |-> [i \in 1..Len(notes) |-> note_to_midi_number(parse_note(notes[i]))],
           frequency |-> [i \in 1..Len(notes) |->
                             note_to_frequency(parse_note(notes[i]))]])

\* weight maps over the keys of a direction exercise, as dict items in
\* order: every map of one to three keys with weights 0, 1 or 3
ChoiceKeys == <<"higher", "lower", "same">>

ChoiceWeights == {0, 1, 3}

WeightMaps ==
    UNION {{[i \in 1..n |-> <<ChoiceKeys[i], w[i]>>] : w \in [1..n -> ChoiceWeights]}
           : n \in 1..Len(ChoiceKeys)}

\* the same map with every weight multiplied by factor
ScaleWeights(items, factor) ==
    [i \in 1..Len(items) |-> <<items[i][1], items[i][2] * factor>>]

\* BaseExercise.weighted_choice(weights) on a map and on the map scaled by
\* factor, both with the draw r
WeightedChoice(items, factor, r) ==
    Apply("weighted_choice",
          [r |-> r, items |-> items, factor |-> factor],
          [choice |-> weighted_choice(items, r).choice,
           scaled_choice |-> weighted_choice(ScaleWeights(items, factor), r).choice])

----------------------------------------------------------------------------
(* audio_app/synthesizer.py : the samples of the synthetic renderers *)

\* amplitudes are in thousandths of full scale, time in slots of a tenth of
\* a second; a level is the sample of a tone at the end of a slot, taken
\* where its carrier is at its crest
FullScale == 1000

\* the 0.7 that _generate_piano_tone normalizes a tone's peak to
PeakLevel == 700

\* the 32767 that the renderers multiply the mixed signal by
Int16Max == 32767

\* np.exp(-t * 3) * (1 - np.exp(-t * 20)) at t = (k + 1) / 10, in
\* thousandths (it peaks at 0.6407 just after t = 0.1 and falls from there)
piano_envelope(k) ==
    LET table == <<640, 539, 406, 301, 223, 165, 122, 91, 67, 50, 37, 27, 20,
                   15, 11>>
    IN  IF k + 1 <= Len(table) THEN table[k + 1] ELSE 0

RECURSIVE SeqMax(_)
SeqMax(seq) == IF Len(seq) = 0 THEN 0 ELSE Max(Head(seq), SeqMax(Tail(seq)))

\* _generate_piano_tone over a time array of the given number of slots: the
\* enveloped tone divided by its largest absolute sample and multiplied by
\* 0.7, when that sample is not zero
generate_piano_tone(slots) ==
    LET audio == [k \in 1..slots |-> piano_envelope(k - 1)]
    IN  IF SeqMax(audio) > 0
        THEN [k \in 1..slots |-> (audio[k] * PeakLevel) \div SeqMax(audio)]
        ELSE audio

\* _create_synthetic_interval: note1, silence, note2 one after the other
create_synthetic_interval_samples(note_duration, gap_duration) ==
    generate_piano_tone(note_duration)
        \o [k \in 1..gap_duration |-> 0]
        \o generate_piano_tone(note_duration)

\* _create_synthetic_harmonic_interval: (audio1 + audio2) / 2
create_synthetic_harmonic_interval_samples(duration) ==
    LET audio1 == generate_piano_tone(duration)
        audio2 == generate_piano_tone(duration)
    IN  [k \in 1..duration |-> (audio1[k] + audio2[k]) \div 2]

\* _create_synthetic_staggered_interval: the root from the start, the
\* second note added from the delay on
create_synthetic_staggered_interval_samples(root_duration, second_duration, delay_ms) ==
    LET delay == delay_ms \div 100
        total == Max(root_duration, delay + second_duration)
        audio1 == generate_piano_tone(root_duration)
        audio2 == generate_piano_tone(second_duration)
    IN  [k \in 1..total |->
            (IF k <= root_duration THEN audio1[k] ELSE 0)
            + (IF k > delay /\ k <= delay + second_duration
               THEN audio2[k - delay] ELSE 0)]

\* the mixed signal of a synthetic renderer for a unison on A-4, whose two
\* tones are in phase at every delay of whole tenths of a second
synthetic_samples(mode, nums) ==
    CASE mode = "melodic_interval" ->
             create_synthetic_interval_samples(nums[1], nums[2])
      [] mode = "harmonic_interval" ->
             create_synthetic_harmonic_interval_samples(nums[1])
      [] OTHER ->
             create_synthetic_staggered_interval_samples(nums[1], nums[2], nums[3])

\* durations in tenths of a second, gaps in tenths, delays in ms
ToneDurations == {1, 5, 10, 15}

StaggerDelays == {0, 100, 200, 400}

SyntheticNums(mode) ==
    CASE mode = "melodic_interval" ->
             {<<d, gap>> : d \in ToneDurations, gap \in {0, 5}}
      [] mode = "harmonic_interval" -> {<<d>> : d \in ToneDurations}
      [] OTHER -> {<<d1, d2, delay_ms>> : d1 \in ToneDurations,
                   d2 \in ToneDurations, delay_ms \in StaggerDelays}

\* a synthetic renderer runs: the mixed signal, and combined_audio * 32767
RenderSynthetic(mode, nums) ==
    LET combined_audio == synthetic_samples(mode, nums)
    IN  Apply("render_synthetic",
              [nums |-> nums, mode |-> mode],
              [mixed |-> combined_audio,
               scaled |-> [k \in 1..Len(combined_audio) |->
                              (combined_audio[k] * Int16Max) \div FullScale]])

----------------------------------------------------------------------------
(* exercises/level1/direction_exercises.py : MelodicShapesExercise *)

\* the local note_order of _generate_shape_notes
shape_note_order == <<"C", "D", "E", "F", "G", "A", "B">>

\* the note _generate_shape_notes appends for a scale step offset from the
\* base: in a rising loop the octave is base_octave + step // 7, in a falling
\* loop base_octave - step // 7 (// is floor division)
shape_note(base_index, base_octave, offset, rising) ==
    LET step == base_index + offset
    IN  << shape_note_order[PyMod(step, 7) + 1],
           IF rising THEN base_octave + FloorDiv(step, 7)
           ELSE base_octave - FloorDiv(step, 7) >>

\* MelodicShapesExercise._generate_shape_notes
generate_shape_notes(base_note, base_octave, shape, length) ==
    LET base_index == IndexOf(shape_note_order, base_note, 1) - 1
        half == length \div 2
        notes ==
            CASE shape = "ascending" ->
                     [k \in 1..length |->
                         shape_note(base_index, base_octave, k - 1, TRUE)]
              [] shape = "descending" ->
                     [k \in 1..length |->
                         shape_note(base_index, base_octave, -(k - 1), FALSE)]
              [] shape = "arch" ->
                     [k \in 1..(half + 1) |->
                         shape_note(base_index, base_octave, k - 1, TRUE)]
                     \o [k \in 1..(length - half - 1) |->
                            shape_note(base_index, base_octave, half - k, TRUE)]
              [] shape = "zigzag" ->
                     [k \in 1..length |->
                         IF (k - 1) % 2 = 0
                         THEN shape_note(base_index, base_octave, (k - 1) \div 2, TRUE)
                         ELSE shape_note(base_index, base_octave,
                                         -((k - 1) \div 2), FALSE)]
              [] OTHER -> <<>>
    IN  SubSeq(notes, 1, Min(length, Len(notes)))

\* the shapes, and the phrase lengths of config_options["phrase_length"]
Shapes == {"arch", "zigzag", "ascending", "descending"}

PhraseLengths == 3..6

\* generate draws a base note and a base octave and builds the phrase
GenerateShapeNotes(base_note, base_octave, shape, length) ==
    Apply("generate_shape_notes",
          [base_octave |-> base_octave, base_note |-> base_note,
           shape |-> shape, length |-> length],
          [notes |-> generate_shape_notes(base_note, base_octave, shape, length)])

TheoryNext ==
    \/ \E root \in ChordRoots, chord_type \in ChordTypes, octave \in ChordOctaves :
          GetChordNotesWithOctaves(root, chord_type, octave)
    \/ \E name \in NoteNames, octave \in NoteOctaves,
          n \in -MaxSemitones..MaxSemitones :
          TransposeThereAndBack(<<name, octave>>, n)
    \/ \E name \in interval_table_keys \cup SeqToSet(get_intervals) :
          LookUpInterval(name)
    \/ \E name \in UnrecognizedNames : UnrecognizedName(name)
    \/ \E root \in SeqToSet(reference_notes), fifth_quality \in FifthQualities,
          octave \in NoteOctaves :
          GetFifthQualityChord(root, fifth_quality, octave)
    \/ \E field \in DomainFields :
          \E correct_word \in DomainWords(field), word \in DomainWords(field) :
             \E mask \in [1..Len(word) -> BOOLEAN] :
                CheckDirectionAnswer(field, correct_word, word, mask)
    \/ \E token \in IntervalTokens, correct_answer \in IntervalTokens :
          \E mask \in [1..Len(token) -> BOOLEAN] :
             CheckIntervalAnswer(token, mask, correct_answer)
    \/ \E key \in TonalKeys, s1 \in StepDraws, s2 \in StepDraws :
          NotesToEngine("find_home_note", key, <<s1, s2>>,
                        generate_tonal_melody(key, <<s1, s2>>))
    \/ \E key \in TonalKeys, degree \in 1..7 :
          NotesToEngine("scale_degrees_solfege", key, <<degree>>,
                        << get_scale_degree_note(key, degree) >>)
    \/ \E key \in TonalKeys, solfege \in {"Do", "Mi", "Sol"} :
          NotesToEngine("tonic_triad_notes", key, <<solfege>>,
                        << get_triad_note(key, solfege) >>)
    \/ \E items \in WeightMaps, factor \in 1..3, r \in RandDraws :
          WeightedChoice(items, factor, r)
    \/ \E mode \in {"melodic_interval", "harmonic_interval", "staggered_interval"} :
          \E nums \in SyntheticNums(mode) : RenderSynthetic(mode, nums)
    \/ \E base_note \in SeqToSet(shape_note_order), base_octave \in 4..5,
          shape \in Shapes, length \in PhraseLengths :
          GenerateShapeNotes(base_note, base_octave, shape, length)

TheorySpec == ApiInit /\ [][TheoryNext]_vars

----------------------------------------------------------------------------
(* Properties of the theory helpers (TheorySpec) *)

\* C12: for every root, chord quality and base octave that chord generation
\* accepts, every chord tone's MIDI number ((octave + 1) * 12 + pitch class)
\* is greater than or equal to the MIDI number of the root.
ChordTonesNotBelowRoot ==
    (last.op = "get_chord_notes_with_octaves" /\ ~last.result.raises)
    => \A i \in 1..Len(last.result.notes) :
           note_to_midi_number(last.result.notes[i])
               >= note_to_midi_number(last.result.notes[1])

\* C13: transposing a note (any accepted pitch-class name, with an octave) by
\* n semitones and then by -n gives the note back, for all n in -24..24.
TransposeRoundTrip ==
    last.op = "transpose_note" => last.result.back = last.args.note

\* the notes a returned generate call placed in its context and passed to
\* its synthesize_* call
GeneratedNotes ==
    IF last.op = "interval_generate"
    THEN {last.result.data.context.reference_note,
          last.result.data.context.second_note}
         \cup SeqToSet(last_synth.req.notes)
    ELSE SeqToSet(last.result.data.context.chord_notes)
         \cup SeqToSet(last_synth.req.notes)

\* C14: every note that generate places in the context or passes to the
\* rendering engine has an octave within 1..8, for every configuration with
\* an octave override within 1..8 (and the upward transposition by the
\* chosen interval).
NotesWithinOctaveRange ==
    (/\ last.op \in {"interval_generate", "chord_generate"}
     /\ ~last.result.raises
     /\ ~Malformed(IF last.op = "interval_generate" THEN last.args.octave
                   ELSE last.args.config.octave, 1, 8))
    => \A note \in GeneratedNotes : 1 <= note[2] /\ note[2] <= 8

----------------------------------------------------------------------------
(* audio_app/synthesizer.py : the note-on schedule of a staggered interval *)

\* the schedule a staggered-interval waveform holds, in ms from the start of
\* the root note (nums is <<root_duration, second_duration, delay_ms>>, the
\* durations in tenths of a second).  _create_fluidsynth_staggered_interval
\* sleeps root_duration, then the delay, then plays the second note;
\* _create_synthetic_staggered_interval adds the second note at the delay
\* into an array as long as max(root_duration, delay + second_duration)
staggered_schedule(wave) ==
    LET root_ms == wave.nums[1] * 100
        second_ms == wave.nums[2] * 100
        delay_ms == wave.nums[3]
    IN  IF wave.engine = "fluidsynth"
        THEN [total |-> root_ms + delay_ms + second_ms,
              second_onset |-> root_ms + delay_ms]
        ELSE [total |-> Max(root_ms, delay_ms + second_ms),
              second_onset |-> delay_ms]

\* C15: in staggered rendering the second note starts delay_ms after the
\* start of the root note, whether or not the root has finished, and the
\* total length is max(root_duration, delay + second_duration), on the
\* synthetic and on the soundfont backend alike.
StaggeredSecondNoteAtDelay ==
    (/\ last.op = "synthesize"
     /\ last.kind = "returned"
     /\ last_synth.req.type = "staggered_interval")
    => LET schedule == staggered_schedule(FileAt(last_synth.path).wave)
           nums == last_synth.req.nums
       IN  /\ schedule.second_onset = nums[3]
           /\ schedule.total = Max(nums[1] * 100, nums[3] + nums[2] * 100)

----------------------------------------------------------------------------
(* Properties of caller-supplied probabilities (OverrideSpec) *)

\* a dict of weights that sum neither to 0 nor to 1
SumsNotToOne(probs) ==
    /\ probs.kind = "dict"
    /\ SumWeights(probs.items, 1) \notin {0, ProbUnit}

\* C16: when generate receives a probability map whose weights do not sum
\* to 1, the category is drawn from that map renormalized over the supplied
\* weights (the override is used, not ignored), in the interval and in the
\* chord exercise family.
SuppliedWeightsAreUsed ==
    /\ (/\ last.op = "interval_generate_weighted"
        /\ SumsNotToOne(last.args.interval_probabilities)
        /\ ~last.result.raises)
       => last.result.data.context.interval
              = weighted_choice(last.args.interval_probabilities.items,
                                last.args.r).choice
    /\ (/\ last.op = "chord_generate"
        /\ SumsNotToOne(last.args.config.chord_probabilities)
        /\ last.args.config.chord_type = NoneV
        /\ ~last.result.raises)
       => last.result.data.context.chord_type
              = weighted_choice(last.args.config.chord_probabilities.items,
                                last.args.r).choice

\* C17: for every interval name of the name-to-token table, the token mapped
\* back to semitones gives the semitone count of the name-to-semitones
\* table; and every name that get_intervals lists is a key of the semitone,
\* display-name and notation tables.
IntervalTablesAgree ==
    last.op = "interval_tables"
    => /\ (last.args.name \in interval_table_keys
           => last.result.token_semitones = last.result.semitones)
       /\ (last.args.name \in SeqToSet(get_intervals)
           => last.args.name \in interval_table_keys)

\* C18: an unrecognized note or interval name never raises: note to MIDI
\* number, note to frequency, interval to semitones and chord octave
\* assignment return the fallback, pitch class 0 for a note (at octave 4:
\* MIDI 60, nine semitones below A4) and 0 semitones for an interval.
UnrecognizedNameFallsBack ==
    last.op = "unrecognized_name"
    => /\ last.result.midi = 60
       /\ last.result.frequency = -9
       /\ last.result.semitones = 0
       /\ ~last.result.chord.raises

\* the semitones of a fifth quality above the root
FifthSemitones(fifth_quality) ==
    CASE fifth_quality = "5dim" -> 6
      [] fifth_quality = "5J" -> 7
      [] fifth_quality = "5aug" -> 8

\* C19: for every configured root note, every octave and each fifth quality
\* in {5dim, 5J, 5aug}, get_fifth_quality_chord returns three tones whose
\* pitch classes are root, root + 4 and root + 6, 7 or 8 (mod 12): the third
\* is always 4 semitones above the root and only the fifth varies.
FifthQualityChordTones ==
    last.op = "get_fifth_quality_chord"
    => LET notes == last.result.notes
           root == note_to_int(last.args.root)
       IN  /\ ~last.result.raises
           /\ Len(notes) = 3
           /\ note_to_int(notes[1][1]) = root
           /\ note_to_int(notes[2][1]) = (root + 4) % 12
           /\ note_to_int(notes[3][1])
                  = (root + FifthSemitones(last.args.fifth_quality)) % 12

\* a diminished fifth that wraps past B: the chord on B with 5dim
DiminishedFifthOnB ==
    /\ last.op = "get_fifth_quality_chord"
    /\ last.args.root = "B"
    /\ last.args.fifth_quality = "5dim"
    /\ ~last.result.raises
    /\ last.result.notes[3][1] = "F"

\* C20: check_answer compares the submitted and the correct answer after
\* string normalization.  For direction, step/leap and melodic shape every
\* letter-case variant of the correct answer is accepted (and a variant of
\* another option is rejected); interval tokens are compared case-sensitively:
\* a token is accepted only when it is exactly the correct one, so "3m" is
\* rejected when the correct answer is "3M".
AnswersCompareAfterNormalization ==
    /\ last.op = "direction_check_answer"
       => (last.result.is_correct <=> last.args.word = last.args.correct_word)
    /\ last.op = "interval_check_answer"
       => /\ last.result.is_correct
                 <=> last.args.answer = last.args.correct_answer
          /\ (last.args.answer = <<"3", "m">>
              /\ last.args.correct_answer = <<"3", "M">>)
             => ~last.result.is_correct

\* "hIgHeR" accepted for the direction higher
MixedCaseDirectionAccepted ==
    /\ last.op = "direction_check_answer"
    /\ last.args.field = "direction"
    /\ last.args.correct_word = <<"h", "i", "g", "h", "e", "r">>
    /\ last.args.answer = <<"h", "I", "g", "H", "e", "R">>
    /\ last.result.is_correct

----------------------------------------------------------------------------
(* The registry and the ids it lists *)

\* a variant of the metadata id that leaves the timing out
metadata_id_without_timing(ex) == ex.exercise_type

\* ExerciseMetadata.id as _create_metadata builds it:
\* f"{self.exercise_type}_{timing_desc}"
metadata_id(ex) ==
    ex.exercise_type \o "_" \o (IF ex.is_melodic THEN "melodic" ELSE "harmonic")

\* the ids of SimpleExerciseRegistry.get_exercise_list(), which
\* ExerciseListView.get returns
get_exercise_list == {metadata_id(exercise_registry[k]) : k \in RegisteredIds}

----------------------------------------------------------------------------
(* The shared instances (Spec) *)

----------------------------------------------------------------------------
(* Note strings handed to the synthesizer (TheorySpec) *)

\* C23: every note string that an exercise's generate passes to the
\* rendering engine has the serialized form <Name>-<octave>: a pitch-class
\* name, a hyphen, an integer octave, the only form from which the engine's
\* note parser reads an octave and a pitch class.
NotesHaveSerializedForm ==
    last.op = "notes_to_engine"
    => \A i \in 1..Len(last.result.notes) :
          LET note == last.result.notes[i]
          IN  /\ Len(note) = 3
              /\ note_map(note[1], -1) # -1
              /\ note[2] = "-"
              /\ IndexOf(Digits, note[3], 1) > 0

----------------------------------------------------------------------------
(* Rendered waveforms (SynthSpec) *)

\* C24: the waveform rendered for a chord or a note sequence is determined
\* by its notes: all requested notes sound for the requested duration, so
\* two chord (or two note-sequence) requests of equal duration with
\* different notes leave different waveforms in the files they return.
WaveformDeterminedByNotes ==
    \A c1 \in completed, c2 \in completed :
        (/\ c1.req.type \in {"chord", "notes"}
         /\ c2.req.type = c1.req.type
         /\ c2.req.nums = c1.req.nums
         /\ c2.req.notes # c1.req.notes)
        => FileAt(c1.path).wave # FileAt(c2.path).wave

----------------------------------------------------------------------------
(* Audio handles (SynthSpec) *)

\* C25: audio handle round trip.  For every path a synthesize_* call
\* returned, cached or not, get_audio_url gives a handle of the form
\* /api/audio/<filename>/ naming the .wav file, and the audio retrieval
\* endpoint resolves that <filename> (audio/ first, then audio/cache/) to the
\* same file, with content type audio/wav.
AudioHandleRoundTrip ==
    last.op = "audio_file"
    => /\ last.result.url.prefix = "/api/"
       /\ last.result.url.segments = <<"audio", file_name(last.args.path)>>
       /\ last.result.url.trailing_slash
       /\ last.result.response.kind = "success"
       /\ last.result.response.file = last.args.path
       /\ last.result.response.content_type = "audio/wav"

----------------------------------------------------------------------------
(* weighted_choice (TheorySpec) *)

\* the weight a map gives to a key
WeightOf(items, key) ==
    LET i == CHOOSE i \in 1..Len(items) : items[i][1] = key IN items[i][2]

\* the sum of the first i weights of a map
PrefixWeight(items, i) == SumWeights(SubSeq(items, 1, i), 1)

\* the first position at which the cumulative normalized weight
\* PrefixWeight / total is at least the draw r / RandDen
FirstReaching(items, r) ==
    LET total == SumWeights(items, 1)
        Reaches(i) == PrefixWeight(items, i) * RandDen >= r * total
    IN  CHOOSE i \in 1..Len(items) : Reaches(i) /\ \A j \in 1..(i - 1) : ~Reaches(j)

\* C26: weighted_choice(w) for a non-empty map w always returns a key of w.
\* When all weights are zero it picks uniformly among the keys (each key is
\* the answer to exactly one of the equally likely index draws); otherwise it
\* returns the first key, in map order, at which the cumulative normalized
\* weight reaches the uniform draw in [0,1), and multiplying all weights by
\* the same positive factor does not change the key returned for a draw.
WeightedChoiceContract ==
    last.op = "weighted_choice"
    => LET items == last.args.items
           total == SumWeights(items, 1)
       IN  /\ \E i \in 1..Len(items) : last.result.choice = items[i][1]
           /\ total = 0
              => /\ \A i \in 1..Len(items) :
                       weighted_choice(items, i - 1).choice = items[i][1]
                 /\ last.result.choice
                       = items[(last.args.r % Len(items)) + 1][1]
           /\ total > 0
              => /\ last.result.choice = items[FirstReaching(items, last.args.r)][1]
                 /\ last.result.scaled_choice = last.result.choice

\* a draw of 1/RandDen on a scaled map whose first key does not reach it
LaterKeyChosenOnScaledMap ==
    /\ last.op = "weighted_choice"
    /\ last.args.factor = 3
    /\ last.args.r = 1
    /\ last.args.items = <<<<"higher", 1>>, <<"lower", 3>>, <<"same", 0>>>>
    /\ last.result.choice = "lower"
    /\ last.result.scaled_choice = "lower"

\* C27: in weighted_choice, when at least one weight is positive, a key whose
\* weight is zero is never returned, for every draw in [0,1) including the
\* draw 0 and for every position of the zero-weight key in the map.
ZeroWeightNeverReturned ==
    (last.op = "weighted_choice" /\ SumWeights(last.args.items, 1) > 0)
    => WeightOf(last.args.items, last.result.choice) > 0

----------------------------------------------------------------------------
(* The sample range of the synthetic renderers (TheorySpec) *)

\* C28: no synthetic renderer writes a sample outside the signed 16-bit
\* range: with each tone peak-normalized to 0.7, the mixed signal before
\* scaling by 32767 stays within [-1, 1] in the sequential, the harmonic
\* (averaged) and the staggered (additively mixed) mode, for every delay >= 0
\* and every pair of durations.
SamplesWithinInt16Range ==
    last.op = "render_synthetic"
    => \A k \in 1..Len(last.result.mixed) :
          /\ last.result.mixed[k] >= -FullScale
          /\ last.result.mixed[k] <= FullScale
          /\ last.result.scaled[k] >= -Int16Max - 1
          /\ last.result.scaled[k] <= Int16Max

----------------------------------------------------------------------------
(* Files left by cached calls (SynthSpec) *)

\* the complete audio files under MEDIA_ROOT/audio, the cache included
AudioFileCount ==
    Cardinality({i \in 1..Len(media_audio) : Complete(media_audio[i])})
    + Cardinality({k \in DOMAIN cache : Complete(cache[k])})

\* C29: with caching enabled and no output path supplied, a synthesize_* call
\* that misses the cache leaves exactly one new file behind, the cache entry:
\* after the call returns no intermediate render file remains in the media
\* audio directory, so after any sequence of calls the number of audio files
\* equals the number of distinct cache keys requested.
CacheMissLeavesOneFile ==
    cache_enabled
    => /\ \A i \in 1..Len(media_audio) : ~Complete(media_audio[i])
       /\ AudioFileCount
             = Cardinality({generate_cache_key(content) : content \in CompletedContents})

----------------------------------------------------------------------------
(* Melodic shapes (TheorySpec) *)

\* the pitch of a note <<name, octave>>: octave * 7 + scale-step index
ShapePitch(note) == note[2] * 7 + IndexOf(shape_note_order, note[1], 1) - 1

\* C30: MelodicShapesExercise generates exactly phrase_length notes that
\* realize the labelled shape: for "ascending" each note is strictly higher
\* in pitch than its predecessor and for "descending" strictly lower, for
\* every base note in C..B, base octave in {4, 5} and phrase length in 3..6.
ShapeNotesRealizeShape ==
    last.op = "generate_shape_notes"
    => LET notes == last.result.notes
       IN  /\ Len(notes) = last.args.length
           /\ last.args.shape = "ascending"
              => \A k \in 2..Len(notes) : ShapePitch(notes[k]) > ShapePitch(notes[k - 1])
           /\ last.args.shape = "descending"
              => \A k \in 2..Len(notes) : ShapePitch(notes[k]) < ShapePitch(notes[k - 1])

====
